---- MODULE Spec2Model ----
(***************************************************************************)
(* Model of the client-side identity bootstrap and usage gate of           *)
(* src/js/script.js: the localStorage-backed session store (login, logout, *)
(* isLoggedIn, getCurrentUser), the usage throttle (incrementUsageCount,   *)
(* showLoginPrompt) and the Google-login orchestrator                       *)
(* (processGoogleLoginData, mockGoogleLogin, emergencyLogin).               *)
(*                                                                         *)
(* JavaScript strings are TLA+ strings; TLC evaluates Len, \o and SubSeq   *)
(* on them, so every conversion below works character by character.        *)
(***************************************************************************)
EXTENDS Integers, Sequences, FiniteSets, TLC

VARIABLES
    localStorage,   \* the origin's localStorage: a function from the keys present to strings
    now,            \* the clock read by Date.now() / new Date().getTime(), in ms
    hostname,       \* window.location.hostname of the page
    href,           \* window.location.href, the visible URL
    fetches,        \* the pending fetch('/api/google-login') calls: the identity each captured
    loginMessage,   \* textContent of #loginMessage
    promptLog,      \* history: the times at which a login prompt was prepended to <main>
    nUses,          \* history: incrementUsageCount() calls made with no 'user' record stored,
                    \* since the page's code last stored a Session
    lastOp,         \* history: the operation that ran last, its input and what it found stored
    ret,            \* history: what that operation returned, showed or stored
    rendered,       \* history: what the calls of updateAuthUI() in that operation rendered, in order
    tabs            \* of each tab that runs a call one storage access at a time: the access
                    \* it is at and the locals of the call

vars == <<localStorage, now, hostname, href, fetches, loginMessage,
          promptLog, nUses, lastOp, ret, rendered, tabs>>

----------------------------------------------------------------------------
(* Bounds of the model *)

\* where the usage gate is followed, the clock takes the values k * PromptCooldownMs and
\* k * PromptCooldownMs + 1 for k \in 0..MaxHours
MaxHours == 1
\* and incrementUsageCount() is called at most MaxUses times between two Sessions
MaxUses == 17
\* where the login flow is followed, it is called at most MaxClicks times between two Sessions
MaxClicks == 1

----------------------------------------------------------------------------
(* Characters and strings *)

\* Scans look at 16 positions at a time rather than recursing on each position, so that
\* the depth of evaluation stays small on the longest strings.

Ch(s, i) == SubSeq(s, i, i)

CharsOf(s) == {Ch(s, i) : i \in 1..Len(s)}

Min(S) == CHOOSE x \in S : \A y \in S : x <= y
Max(S) == CHOOSE x \in S : \A y \in S : x >= y

\* the first position at or after from whose character is in cs (is not in cs); 0 when none
RECURSIVE FirstIn(_, _, _)
FirstIn(s, from, cs) ==
    LET to == IF from + 15 < Len(s) THEN from + 15 ELSE Len(s)
        hits == {i \in from..to : Ch(s, i) \in cs}
    IN IF from > Len(s) THEN 0
       ELSE IF hits # {} THEN Min(hits)
       ELSE FirstIn(s, to + 1, cs)

RECURSIVE FirstNotIn(_, _, _)
FirstNotIn(s, from, cs) ==
    LET to == IF from + 15 < Len(s) THEN from + 15 ELSE Len(s)
        hits == {i \in from..to : Ch(s, i) \notin cs}
    IN IF from > Len(s) THEN 0
       ELSE IF hits # {} THEN Min(hits)
       ELSE FirstNotIn(s, to + 1, cs)

Digits == <<"0", "1", "2", "3", "4", "5", "6", "7", "8", "9">>

IsDigit(c) == \E d \in 1..10 : Digits[d] = c

DigitVal(c) == (CHOOSE d \in 1..10 : Digits[d] = c) - 1

\* Number.prototype.toString() of a non-negative integer; NaN prints as "NaN"
NaN == 0 - 1

RECURSIVE DecString(_)
DecString(n) == IF n < 10 THEN Digits[n + 1] ELSE DecString(n \div 10) \o Digits[(n % 10) + 1]

NumToString(n) == IF n = NaN THEN "NaN" ELSE DecString(n)

\* parseInt(s): the longest prefix of decimal digits, NaN when there is none
RECURSIVE ParseDigits(_, _, _)
ParseDigits(s, i, acc) ==
    IF i > Len(s) \/ ~IsDigit(Ch(s, i)) THEN acc
    ELSE ParseDigits(s, i + 1, acc * 10 + DigitVal(Ch(s, i)))

parseInt(s) == IF Len(s) = 0 \/ ~IsDigit(Ch(s, 1)) THEN NaN ELSE ParseDigits(s, 1, 0)

\* s.indexOf(t, from), 1-based; 0 when t does not occur at or after from
RECURSIVE IndexOfFrom(_, _, _)
IndexOfFrom(s, t, from) ==
    LET last == Len(s) - Len(t) + 1
        to == IF from + 15 < last THEN from + 15 ELSE last
        hits == {i \in from..to : SubSeq(s, i, i + Len(t) - 1) = t}
    IN IF from > last THEN 0
       ELSE IF hits # {} THEN Min(hits)
       ELSE IndexOfFrom(s, t, to + 1)

IndexOf(s, t) == IndexOfFrom(s, t, 1)

Includes(s, t) == IndexOf(s, t) > 0

----------------------------------------------------------------------------
(* JavaScript values: strings, numbers, null, undefined and flat objects.  *)
(* Every value is a record of the same shape, so any two compare.          *)

JStr(s) == [t |-> "str", v |-> s, o |-> <<>>]
JNum(n) == [t |-> "num", v |-> NumToString(n), o |-> <<>>]
JNull == [t |-> "null", v |-> "", o |-> <<>>]
JUndef == [t |-> "undef", v |-> "", o |-> <<>>]
JBool(b) == [t |-> "bool", v |-> IF b THEN "true" ELSE "false", o |-> <<>>]
\* an object: keys is the sequence of its own property names in insertion order
JObj(keys, f) == [t |-> "obj", v |-> "", o |-> <<keys, f>>]

ObjKeys(x) == x.o[1]
ObjHas(x, k) == x.t = "obj" /\ \E i \in 1..Len(ObjKeys(x)) : ObjKeys(x)[i] = k
\* x.k
Get(x, k) == IF ObjHas(x, k) THEN x.o[2][k] ELSE JUndef

\* ToBoolean: what `if (x)`, `!x` and `x || y` test
Truthy(x) ==
    CASE x.t = "str" -> x.v # ""
      [] x.t = "num" -> x.v \notin {"0", "NaN"}
      [] x.t = "bool" -> x.v = "true"
      [] x.t = "obj" -> TRUE
      [] OTHER -> FALSE

\* x || y
Or(x, y) == IF Truthy(x) THEN x ELSE y

----------------------------------------------------------------------------
(* JSON.stringify and JSON.parse, restricted to the values above: strings, *)
(* non-negative integers, null, booleans and objects of such values.       *)
(* Arrays, fractions, exponents and \uXXXX escapes are not modelled: no    *)
(* string the model stores or parses contains one.                         *)

\* the escape JSON.stringify writes for one character of a string
EscapeChar(c) ==
    CASE c = "\"" -> "\\\""
      [] c = "\\" -> "\\\\"
      [] c = "\n" -> "\\n"
      [] c = "\t" -> "\\t"
      [] c = "\r" -> "\\r"
      [] OTHER -> c

Escaped == {"\"", "\\", "\n", "\t", "\r"}

RECURSIVE Escape(_)
Escape(s) ==
    LET k == FirstIn(s, 1, Escaped)
    IN IF k = 0 THEN s
       ELSE SubSeq(s, 1, k - 1) \o EscapeChar(Ch(s, k)) \o Escape(SubSeq(s, k + 1, Len(s)))

\* a variant that writes a string between quotes without escaping it
QuoteRaw(s) == "\"" \o s \o "\""

Quote(s) == "\"" \o Escape(s) \o "\""

RECURSIVE JSONstringify(_)
RECURSIVE StringifyMembers(_, _, _)
\* the members of object x from its i-th key on; a property whose value is undefined is left out
StringifyMembers(x, i, first) ==
    IF i > Len(ObjKeys(x)) THEN ""
    ELSE LET k == ObjKeys(x)[i]
             val == x.o[2][k]
         IN IF val.t = "undef" THEN StringifyMembers(x, i + 1, first)
            ELSE (IF first THEN "" ELSE ",") \o Quote(k) \o ":" \o JSONstringify(val)
                 \o StringifyMembers(x, i + 1, FALSE)

JSONstringify(x) ==
    CASE x.t = "str" -> Quote(x.v)
      [] x.t = "num" -> IF x.v = "NaN" THEN "null" ELSE x.v
      [] x.t = "bool" -> x.v
      [] x.t = "obj" -> "{" \o StringifyMembers(x, 1, TRUE) \o "}"
      [] x.t = "undef" -> "undefined"   \* undefined, which setItem stores as "undefined"
      [] OTHER -> "null"

ParseFail == [ok |-> FALSE, val |-> JUndef, next |-> 0]
ParseOk(val, next) == [ok |-> TRUE, val |-> val, next |-> next]

WsChars == {" ", "\n", "\t", "\r"}

IsWs(c) == c \in WsChars

\* the first position at or after i that holds no white space
SkipWs(s, i) ==
    LET k == FirstNotIn(s, i, WsChars)
    IN IF i > Len(s) \/ ~IsWs(Ch(s, i)) THEN i ELSE IF k = 0 THEN Len(s) + 1 ELSE k

StartsAt(s, i, t) == i + Len(t) - 1 <= Len(s) /\ SubSeq(s, i, i + Len(t) - 1) = t

\* the character an escape \e stands for
EscapedChar(e) == CASE e = "n" -> "\n" [] e = "t" -> "\t" [] e = "r" -> "\r" [] OTHER -> e

JoinUnescaped(prefix, rest) == [ok |-> rest.ok, v |-> prefix \o rest.v]

\* the characters a JSON string body stands for; ok is FALSE for a raw control
\* character or an escape that is not one of \" \\ \/ \n \t \r
RECURSIVE Unescape(_)
RECURSIVE UnescapeAt(_, _)
Unescape(body) == UnescapeAt(body, FirstIn(body, 1, {"\\"}))

\* k is the position of the first backslash of body, 0 when it has none
UnescapeAt(body, k) ==
    CASE k = 0 -> [ok |-> FirstIn(body, 1, {"\n", "\t", "\r"}) = 0, v |-> body]
      [] k = Len(body) -> [ok |-> FALSE, v |-> ""]
      [] Ch(body, k + 1) \notin {"\"", "\\", "/", "n", "t", "r"} -> [ok |-> FALSE, v |-> ""]
      [] FirstIn(SubSeq(body, 1, k - 1), 1, {"\n", "\t", "\r"}) # 0 -> [ok |-> FALSE, v |-> ""]
      [] OTHER -> JoinUnescaped(SubSeq(body, 1, k - 1) \o EscapedChar(Ch(body, k + 1)),
                                Unescape(SubSeq(body, k + 2, Len(body))))

\* the number of backslashes that end at position j - 1, counted back to position i
BackslashRun(s, i, j, others) == j - 1 - (IF others = {} THEN i - 1 ELSE Max(others))

\* the first quote at or after position first that an odd run of backslashes does not
\* escape, 0 when there is none
ClosingQuote(s, i, closing) == IF closing = {} THEN 0 ELSE Min(closing)

\* the end of the string that starts at i, first being the position of the first quote
StringEnd(s, i, first) ==
    CASE first = 0 -> 0
      [] first = i \/ Ch(s, first - 1) # "\\" -> first
      [] OTHER ->
           ClosingQuote(s, i,
               {j \in first..Len(s) :
                   /\ Ch(s, j) = "\""
                   /\ BackslashRun(s, i, j, {k \in i..(j - 1) : Ch(s, k) # "\\"}) % 2 = 0})

StringValue(body, end) == IF ~body.ok THEN ParseFail ELSE ParseOk(JStr(body.v), end + 1)

StringUpTo(s, i, end) ==
    IF end = 0 THEN ParseFail ELSE StringValue(Unescape(SubSeq(s, i, end - 1)), end)

\* a JSON string whose opening quote is before position i: it ends at the first quote
\* that an odd run of backslashes does not escape
ParseStringBody(s, i) == StringUpTo(s, i, StringEnd(s, i, FirstIn(s, i, {"\""})))

RECURSIVE DigitsEnd(_, _)
DigitsEnd(s, i) == IF i <= Len(s) /\ IsDigit(Ch(s, i)) THEN DigitsEnd(s, i + 1) ELSE i

\* a JSON number at position i: 0, or a digit 1-9 followed by digits
ParseNumber(s, i) ==
    LET e == DigitsEnd(s, i)
    IN IF Ch(s, i) = "0" /\ e > i + 1 THEN ParseFail
       ELSE ParseOk([t |-> "num", v |-> SubSeq(s, i, e - 1), o |-> <<>>], e)

\* obj with property k set to val: a new key is appended, an old one keeps its place
SetProp(obj, k, val) ==
    JObj(IF ObjHas(obj, k) THEN ObjKeys(obj) ELSE Append(ObjKeys(obj), k),
         (k :> val) @@ obj.o[2])

EmptyObj == JObj(<<>>, <<>>)

RECURSIVE ParseValue(_, _)
RECURSIVE ParseMembers(_, _, _)
RECURSIVE MemberColon(_, _, _)
RECURSIVE MemberValue(_, _, _, _)
RECURSIVE MemberEnd(_, _, _)
\* the members of an object from position i (at a key) to the closing brace
ParseMembers(s, i, obj) ==
    IF ~StartsAt(s, i, "\"") THEN ParseFail
    ELSE MemberColon(s, obj, ParseStringBody(s, i + 1))

\* after the key: white space, a colon, white space and the value
MemberColon(s, obj, key) ==
    IF ~key.ok \/ ~StartsAt(s, SkipWs(s, key.next), ":") THEN ParseFail
    ELSE MemberValue(s, obj, key.val.v, ParseValue(s, SkipWs(s, SkipWs(s, key.next) + 1)))

\* after the value: white space, then a closing brace or a comma and the next member
MemberValue(s, obj, k, val) ==
    IF ~val.ok THEN ParseFail
    ELSE MemberEnd(s, SetProp(obj, k, val.val), SkipWs(s, val.next))

MemberEnd(s, obj, after) ==
    CASE StartsAt(s, after, "}") -> ParseOk(obj, after + 1)
      [] StartsAt(s, after, ",") -> ParseMembers(s, SkipWs(s, after + 1), obj)
      [] OTHER -> ParseFail

\* the object whose opening brace is before position j
ParseObject(s, j) ==
    IF StartsAt(s, j, "}") THEN ParseOk(EmptyObj, j + 1) ELSE ParseMembers(s, j, EmptyObj)

ParseValue(s, i) ==
    CASE i > Len(s) -> ParseFail
      [] Ch(s, i) = "\"" -> ParseStringBody(s, i + 1)
      [] Ch(s, i) = "{" -> ParseObject(s, SkipWs(s, i + 1))
      [] IsDigit(Ch(s, i)) -> ParseNumber(s, i)
      [] StartsAt(s, i, "null") -> ParseOk(JNull, i + 4)
      [] StartsAt(s, i, "true") -> ParseOk(JBool(TRUE), i + 4)
      [] StartsAt(s, i, "false") -> ParseOk(JBool(FALSE), i + 5)
      [] OTHER -> ParseFail

\* JSON.parse(s): ok is FALSE where JSON.parse throws a SyntaxError
\* r is the value parsed from the start of s: only white space may follow it
ParseEnd(s, r) ==
    IF r.ok /\ SkipWs(s, r.next) = Len(s) + 1 THEN [ok |-> TRUE, val |-> r.val]
    ELSE [ok |-> FALSE, val |-> JUndef]

JSONparse(s) == ParseEnd(s, ParseValue(s, SkipWs(s, 1)))


----------------------------------------------------------------------------
(* localStorage *)

\* localStorage.getItem(k): the stored string, or null
getItem(st, k) == IF k \in DOMAIN st THEN JStr(st[k]) ELSE JNull

setItem(st, k, s) == [x \in (DOMAIN st) \cup {k} |-> IF x = k THEN s ELSE st[x]]

removeItem(st, k) == [x \in (DOMAIN st) \ {k} |-> st[x]]

EmptyStorage == [x \in {} |-> ""]

----------------------------------------------------------------------------
(* Identity Session Store *)

\* a variant of login() that leaves the usage count stored
loginKeepingCount(st, userData) == setItem(st, "user", JSONstringify(userData))

\* login(userData): setItem('user', JSON.stringify(userData)), then removeItem('usageCount')
login(st, userData) ==
    removeItem(setItem(st, "user", JSONstringify(userData)), "usageCount")

\* isLoggedIn(): !!localStorage.getItem('user')
isLoggedIn(st) == Truthy(getItem(st, "user"))

\* a variant of the try/catch that removes the record it has parsed
TryParseUserDiscarding(st, parsed) ==
    IF parsed.ok THEN [st |-> removeItem(st, "user"), ret |-> parsed.val]
    ELSE [st |-> removeItem(st, "user"), ret |-> JNull]

\* the try/catch of getCurrentUser() around JSON.parse(userString)
TryParseUser(st, parsed) ==
    IF parsed.ok THEN [st |-> st, ret |-> parsed.val]
    ELSE [st |-> removeItem(st, "user"), ret |-> JNull]

\* getCurrentUser(): the storage it leaves and the value it returns
getCurrentUser(st) ==
    IF ~Truthy(getItem(st, "user")) THEN [st |-> st, ret |-> JNull]
    ELSE TryParseUser(st, JSONparse(st["user"]))

\* the storage updateAuthUI() leaves: its only access is getCurrentUser()
updateAuthUI(st) == getCurrentUser(st).st

\* a variant of logout() that removes the usage count as well
logoutAndForget(st) == updateAuthUI(removeItem(removeItem(st, "user"), "usageCount"))

\* logout(): removeItem('user'), then updateAuthUI()
logout(st) == updateAuthUI(removeItem(st, "user"))

----------------------------------------------------------------------------
(* Usage Throttle *)

PromptThreshold == 15
PromptCooldownMs == 3600000

\* now - parseInt(lastPromptTime), NaN when the stored time is no number
Elapsed(t, parsed) == IF parsed = NaN THEN NaN ELSE t - parsed

\* a variant that prompts again as soon as 3600 seconds have passed, not after more
PromptAfterAtLeast(st, t, lastPromptTime) ==
    IF ~Truthy(lastPromptTime) \/ Elapsed(t, parseInt(lastPromptTime.v)) >= PromptCooldownMs
    THEN [st |-> setItem(st, "lastLoginPromptTime", NumToString(t)), shown |-> TRUE]
    ELSE [st |-> st, shown |-> FALSE]

\* a variant that starts the count anew when it shows the prompt
PromptAfterResetting(st, t, lastPromptTime) ==
    IF ~Truthy(lastPromptTime) \/ Elapsed(t, parseInt(lastPromptTime.v)) > PromptCooldownMs
    THEN [st |-> removeItem(setItem(st, "lastLoginPromptTime", NumToString(t)), "usageCount"),
          shown |-> TRUE]
    ELSE [st |-> st, shown |-> FALSE]

\* a variant that stores the time whether or not it shows the prompt
PromptAfterStamping(st, t, lastPromptTime) ==
    [st |-> setItem(st, "lastLoginPromptTime", NumToString(t)),
     shown |-> ~Truthy(lastPromptTime)
               \/ Elapsed(t, parseInt(lastPromptTime.v)) > PromptCooldownMs]

\* showLoginPrompt() once the stored time is read
PromptAfter(st, t, lastPromptTime) ==
    IF ~Truthy(lastPromptTime) \/ Elapsed(t, parseInt(lastPromptTime.v)) > PromptCooldownMs
    THEN [st |-> setItem(st, "lastLoginPromptTime", NumToString(t)), shown |-> TRUE]
    ELSE [st |-> st, shown |-> FALSE]

\* showLoginPrompt() at time t: the storage it leaves and whether it prepended the prompt
showLoginPrompt(st, t) == PromptAfter(st, t, getItem(st, "lastLoginPromptTime"))

\* a variant that adds two
SuccessorSkipping(parsed) == IF parsed = NaN THEN NaN ELSE parsed + 2

\* count + 1, NaN when the stored count is no number
Successor(parsed) == IF parsed = NaN THEN NaN ELSE parsed + 1

\* a variant that prompts only above the threshold, not at it
CountUseAbove(st, t, count) ==
    IF count # NaN /\ count > PromptThreshold
    THEN showLoginPrompt(setItem(st, "usageCount", NumToString(count)), t)
    ELSE [st |-> setItem(st, "usageCount", NumToString(count)), shown |-> FALSE]

\* a variant that prompts at the threshold only, not above it
CountUseAtThreshold(st, t, count) ==
    IF count # NaN /\ count = PromptThreshold
    THEN showLoginPrompt(setItem(st, "usageCount", NumToString(count)), t)
    ELSE [st |-> setItem(st, "usageCount", NumToString(count)), shown |-> FALSE]

\* incrementUsageCount() once the new count is computed: it is stored, then compared
CountUse(st, t, count) ==
    IF count # NaN /\ count >= PromptThreshold
    THEN showLoginPrompt(setItem(st, "usageCount", NumToString(count)), t)
    ELSE [st |-> setItem(st, "usageCount", NumToString(count)), shown |-> FALSE]

\* a variant that counts the uses of a logged-in visitor too
countEveryUse(st, t) ==
    CountUse(st, t, Successor(parseInt(Or(getItem(st, "usageCount"), JStr("0")).v)))

\* incrementUsageCount() at time t
incrementUsageCount(st, t) ==
    IF isLoggedIn(st) THEN [st |-> st, shown |-> FALSE]
    ELSE CountUse(st, t, Successor(parseInt(Or(getItem(st, "usageCount"), JStr("0")).v)))

----------------------------------------------------------------------------
(* URLs: percent-coding and URLSearchParams, for printable ASCII *)

\* the printable ASCII characters, code 32 (space) first. A TLA+ string cannot hold the
\* backquote (code 96): a form feed holds its place, and code 96 is never decoded.
Ascii == " !\"#$%&'()*+,-./0123456789:;<=>?@ABCDEFGHIJKLMNOPQRSTUVWXYZ[\\]^_\fabcdefghijklmnopqrstuvwxyz{|}~"

CharCode(c) == IndexOf(Ascii, c) + 31
FromCharCode(n) == Ch(Ascii, n - 31)

HexUpper == "0123456789ABCDEF"
HexLower == "0123456789abcdef"

IsHex(c) == Includes(HexUpper, c) \/ Includes(HexLower, c)
HexVal(c) == IF Includes(HexUpper, c) THEN IndexOf(HexUpper, c) - 1 ELSE IndexOf(HexLower, c) - 1

\* characters encodeURIComponent leaves as they are
Unreserved == "ABCDEFGHIJKLMNOPQRSTUVWXYZabcdefghijklmnopqrstuvwxyz0123456789-_.!~*'()"

UnreservedChars == CharsOf(Unreserved)

PercentEncode(c) ==
    "%" \o Ch(HexUpper, (CharCode(c) \div 16) + 1) \o Ch(HexUpper, (CharCode(c) % 16) + 1)

RECURSIVE encodeURIComponent(_)
encodeURIComponent(s) ==
    LET k == FirstNotIn(s, 1, UnreservedChars)
    IN IF k = 0 THEN s
       ELSE SubSeq(s, 1, k - 1) \o PercentEncode(Ch(s, k))
            \o encodeURIComponent(SubSeq(s, k + 1, Len(s)))

\* the code of the two hex digits after position k
HexCode(s, k) == HexVal(Ch(s, k + 1)) * 16 + HexVal(Ch(s, k + 2))

\* position k starts a %XX that stands for a printable ASCII character
IsCoded(s, k) ==
    /\ Ch(s, k) = "%" /\ k + 2 <= Len(s)
    /\ IsHex(Ch(s, k + 1)) /\ IsHex(Ch(s, k + 2))
    /\ HexCode(s, k) \in (32..126) \ {96}

\* the decoding URLSearchParams applies to a name or a value: '+' is a space, %XX is the
\* character of that code, and a '%' not followed by two hex digits stays
RECURSIVE FormDecode(_)
RECURSIVE FormDecodeAt(_, _)
FormDecode(s) == FormDecodeAt(s, FirstIn(s, 1, {"+", "%"}))

\* k is the position of the first '+' or '%' of s, 0 when it has none
FormDecodeAt(s, k) ==
    CASE k = 0 -> s
      [] Ch(s, k) = "+" ->
           SubSeq(s, 1, k - 1) \o " " \o FormDecode(SubSeq(s, k + 1, Len(s)))
      [] IsCoded(s, k) ->
           SubSeq(s, 1, k - 1) \o FromCharCode(HexCode(s, k))
           \o FormDecode(SubSeq(s, k + 3, Len(s)))
      [] OTHER -> SubSeq(s, 1, k) \o FormDecode(SubSeq(s, k + 1, Len(s)))

\* s.split(sep) for a non-empty separator
RECURSIVE Split(_, _)
RECURSIVE SplitAt(_, _, _)
Split(s, sep) == SplitAt(s, sep, IndexOf(s, sep))

SplitAt(s, sep, k) ==
    IF k = 0 THEN <<s>>
    ELSE <<SubSeq(s, 1, k - 1)>> \o Split(SubSeq(s, k + Len(sep), Len(s)), sep)

\* the <<name, value>> pair of one piece of a query string, eq being the position of its '='
PairAt(piece, eq) ==
    IF eq = 0 THEN <<FormDecode(piece), "">>
    ELSE <<FormDecode(SubSeq(piece, 1, eq - 1)), FormDecode(SubSeq(piece, eq + 1, Len(piece)))>>

ParamPairs(pieces) == [i \in 1..Len(pieces) |-> PairAt(pieces[i], IndexOf(pieces[i], "="))]

NonEmpty(pieces) == SelectSeq(pieces, LAMBDA piece : piece # "")

\* new URLSearchParams(init): the list of <<name, value>> pairs
URLSearchParams(init) ==
    ParamPairs(NonEmpty(Split(IF StartsAt(init, 1, "?") THEN SubSeq(init, 2, Len(init))
                              ELSE init, "&")))

\* a variant that yields undefined, as a property read would, for a name not present
ParamsGetUndefined(params, name) ==
    LET hits == {i \in 1..Len(params) : params[i][1] = name}
    IN IF hits = {} THEN JUndef
       ELSE JStr(params[CHOOSE i \in hits : \A j \in hits : i <= j][2])

\* params.get(name): the value of the first pair of that name, or null
ParamsGet(params, name) ==
    LET hits == {i \in 1..Len(params) : params[i][1] = name}
    IN IF hits = {} THEN JNull
       ELSE JStr(params[CHOOSE i \in hits : \A j \in hits : i <= j][2])

\* window.location: the parts of href. Every URL of the model is origin, a path, then
\* an optional "?query" and an optional "#fragment".
Origin(host) == "http://" \o host

\* position of the first '?' or '#' at or after i, or Len + 1
PathEnd(url, i) ==
    LET k == FirstIn(url, i, {"?", "#"})
    IN IF k = 0 THEN Len(url) + 1 ELSE k

LocationPathname(url, host) ==
    SubSeq(url, Len(Origin(host)) + 1, PathEnd(url, Len(Origin(host)) + 1) - 1)

\* the text from the '?' at position q to the '#' at position h, "" when it is "?" alone
SearchBetween(url, q, h) ==
    IF q > Len(url) \/ Ch(url, q) # "?" \/ h = q + 1 THEN "" ELSE SubSeq(url, q, h - 1)

\* window.location.search: from the '?' that ends the path to the '#'
LocationSearch(url, host) ==
    SearchBetween(url, PathEnd(url, Len(Origin(host)) + 1),
                  IF Includes(url, "#") THEN IndexOf(url, "#") ELSE Len(url) + 1)

\* origin + pathname: the address replaceState() installs when the code cleans the URL
CleanUrl(url, host) == Origin(host) \o LocationPathname(url, host)


----------------------------------------------------------------------------
(* Redirect Parameter Extractor: the parameter parsing of processGoogleLoginData *)

\* s.split(sep)[1] in JavaScript's 0-based indexing: what lies between the first and the
\* second occurrence of sep (sep occurs in s)
SplitSecond(s, sep) == Split(s, sep)[2]

\* a variant of the character class that does not keep '%'
SlashAllowedNoPercent ==
    "ABCDEFGHIJKLMNOPQRSTUVWXYZabcdefghijklmnopqrstuvwxyz0123456789_ \t\n\r\f=&@.-"

\* \w, \s and the characters = & % @ . - which /[^\w\s=&%@.-]/g leaves in place
SlashAllowed == "ABCDEFGHIJKLMNOPQRSTUVWXYZabcdefghijklmnopqrstuvwxyz0123456789_ \t\n\r\f=&%@.-"

SlashAllowedChars == CharsOf(SlashAllowed)

\* s.replace(/[^\w\s=&%@.-]/g, '')
RECURSIVE StripDisallowed(_)
StripDisallowed(s) ==
    LET k == FirstNotIn(s, 1, SlashAllowedChars)
    IN IF k = 0 THEN s
       ELSE SubSeq(s, 1, k - 1) \o StripDisallowed(SubSeq(s, k + 1, Len(s)))

illegalChars == <<" ", "\"", "'", "<", ">", "\\", "{", "}">>

\* the end of the direct scan: the smallest index of an illegal character at or after
\* startIndex, or one past the end of the url
RECURSIVE ScanEnd(_, _, _, _)
ScanEnd(url, startIndex, k, endIndex) ==
    IF k > Len(illegalChars) THEN endIndex
    ELSE LET charIndex == IndexOfFrom(url, illegalChars[k], startIndex)
         IN ScanEnd(url, startIndex, k + 1,
                    IF charIndex # 0 /\ charIndex < endIndex THEN charIndex ELSE endIndex)

\* a variant of the direct scan that takes the illegal character it stops at
DirectScanInclusive(url, startIndex) ==
    SubSeq(url, startIndex, Min({ScanEnd(url, startIndex, 1, Len(url) + 1), Len(url)}))

\* the direct scan: from 'google_id=' to the first illegal character
DirectScan(url, startIndex) ==
    SubSeq(url, startIndex, ScanEnd(url, startIndex, 1, Len(url) + 1) - 1)

\* a variant that looks for '#google_id=' before '?google_id='
RedirectQueryFragmentFirst(url, host) ==
    CASE Includes(url, "#google_id=") -> SplitSecond(url, "#")
      [] Includes(url, "?google_id=") -> LocationSearch(url, host)
      [] Includes(url, "/google_id=") ->
           "google_id=" \o StripDisallowed(SplitSecond(url, "/google_id="))
      [] OTHER -> DirectScan(url, IndexOf(url, "google_id="))

\* the text processGoogleLoginData hands to URLSearchParams, for a url that includes
\* 'google_id='
RedirectQuery(url, host) ==
    CASE Includes(url, "?google_id=") -> LocationSearch(url, host)
      [] Includes(url, "#google_id=") -> SplitSecond(url, "#")
      [] Includes(url, "/google_id=") ->
           "google_id=" \o StripDisallowed(SplitSecond(url, "/google_id="))
      [] OTHER -> DirectScan(url, IndexOf(url, "google_id="))

\* the URLSearchParams processGoogleLoginData builds from a url that includes 'google_id='
ExtractParams(url, host) == URLSearchParams(RedirectQuery(url, host))

\* the four values read from the parameters: googleId, name, email, picture
Identity(params) ==
    [googleId |-> ParamsGet(params, "google_id"), name |-> ParamsGet(params, "name"),
     email |-> ParamsGet(params, "email"), picture |-> ParamsGet(params, "picture")]

\* the parameter parsing of processGoogleLoginData() as a function of the URL: the four
\* values as an object, null when the URL holds no 'google_id='
ExtractIdentity(url, host) ==
    IF ~Includes(url, "google_id=") THEN JNull
    ELSE JObj(<<"googleId", "name", "email", "picture">>, Identity(ExtractParams(url, host)))

\* decodeURIComponent(s): %XX is the character of that code and '+' stays; ok is FALSE
\* when it throws a URIError, on a '%' not followed by two hex digits or on a %XX that
\* is not the start of a UTF-8 sequence the text continues (each %XX of the inputs at
\* or above %80 stands alone)
RECURSIVE decodeURIComponent(_)
decodeURIComponent(s) ==
    LET k == IndexOf(s, "%")
    IN CASE k = 0 -> [ok |-> TRUE, v |-> s]
         [] ~(k + 2 <= Len(s) /\ IsHex(Ch(s, k + 1)) /\ IsHex(Ch(s, k + 2))) ->
              [ok |-> FALSE, v |-> ""]
         [] HexCode(s, k) >= 128 -> [ok |-> FALSE, v |-> ""]
         [] OTHER ->
              JoinUnescaped(SubSeq(s, 1, k - 1) \o FromCharCode(HexCode(s, k)),
                            decodeURIComponent(SubSeq(s, k + 3, Len(s))))

\* the characters the class [^&"\s<>] of the regular expressions excludes
MatchStops == {"&", "\"", "<", ">", " ", "\t", "\n", "\r", "\f"}

\* url.match(/key([^&"\s<>]+)/) tried at the occurrences of key at or after from: the
\* text captured at the first occurrence that is followed by a character of the class,
\* null when there is none
RECURSIVE MatchFrom(_, _, _)
MatchFrom(url, key, from) ==
    LET p == IndexOfFrom(url, key, from)
        start == p + Len(key)
        stop == FirstIn(url, start, MatchStops)
        end == IF stop = 0 THEN Len(url) ELSE stop - 1
    IN CASE p = 0 -> JNull
         [] end >= start -> JStr(SubSeq(url, start, end))
         [] OTHER -> MatchFrom(url, key, p + 1)

\* match ? decodeURIComponent(match[1]) : null, with whether the decoding threw
DecodedMatch(m) ==
    IF m.t = "null" THEN [ok |-> TRUE, val |-> JNull]
    ELSE [ok |-> decodeURIComponent(m.v).ok, val |-> JStr(decodeURIComponent(m.v).v)]

\* the third branch of testLoginFromCurrentUrl(): google_id as matched, name, email and
\* picture matched and decoded; threw when a decoding throws
MatchedIdentity(url) ==
    [threw |-> \E key \in {"name=", "email=", "picture="} :
                  ~DecodedMatch(MatchFrom(url, key, 1)).ok,
     id |-> [googleId |-> MatchFrom(url, "google_id=", 1),
             name |-> DecodedMatch(MatchFrom(url, "name=", 1)).val,
             email |-> DecodedMatch(MatchFrom(url, "email=", 1)).val,
             picture |-> DecodedMatch(MatchFrom(url, "picture=", 1)).val]]

\* the four values testLoginFromCurrentUrl() reads from a url that includes 'google_id='
TestLoginIdentity(url, host) ==
    CASE Includes(url, "?google_id=") ->
           [threw |-> FALSE, id |-> Identity(URLSearchParams(LocationSearch(url, host)))]
      [] Includes(url, "#google_id=") ->
           [threw |-> FALSE, id |-> Identity(URLSearchParams(SplitSecond(url, "#")))]
      [] OTHER -> MatchedIdentity(url)

\* the arguments testLoginFromCurrentUrl() passes to mockGoogleLogin() as an object,
\* false when it returns false without calling it
PassedIdentity(url, host) ==
    IF ~Includes(url, "google_id=") THEN JBool(FALSE)
    ELSE IF TestLoginIdentity(url, host).threw
            \/ ~Truthy(TestLoginIdentity(url, host).id.googleId)
    THEN JBool(FALSE)
    ELSE JObj(<<"googleId", "name", "email", "picture">>, TestLoginIdentity(url, host).id)

----------------------------------------------------------------------------
(* Auth Orchestrator *)

\* String(x) of a string, undefined or null, or of an object that keeps the toString of
\* Object.prototype
ToStr(x) ==
    CASE x.t = "undef" -> "undefined" [] x.t = "null" -> "null"
      [] x.t = "obj" -> "[object Object]" [] OTHER -> x.v

\* converting x to a string throws a TypeError: x is an object whose own 'toString' is
\* not a function (no value that JSON.parse() returns is one) and whose valueOf(), that
\* of Object.prototype, returns the object
ToStringThrows(x) == x.t = "obj" /\ ObjHas(x, "toString")

\* the message of that TypeError
NotPrimitiveMessage == "Cannot convert object to primitive value"

\* what updateAuthUI() renders for user: the text of #navLogin and, with the profile
\* dropdown shown, the src of #userAvatar
ViewOf(user) ==
    CASE ~Truthy(user) -> [navLogin |-> "Login", userAvatar |-> "", threw |-> FALSE]
      [] Truthy(Get(user, "picture")) ->
           [navLogin |-> "Logout", userAvatar |-> Get(user, "picture").v, threw |-> FALSE]
      [] ToStringThrows(Get(user, "username")) ->
           [navLogin |-> "Logout", userAvatar |-> "", threw |-> TRUE]
      [] OTHER ->
           [navLogin |-> "Logout",
            userAvatar |-> "https://ui-avatars.com/api/?name="
                           \o encodeURIComponent(ToStr(Get(user, "username")))
                           \o "&background=random",
            threw |-> FALSE]

\* what updateAuthUI() renders when it runs on storage st
AuthView(st) == ViewOf(getCurrentUser(st).ret)

LocalHosts == {"localhost", "127.0.0.1"}
CanonicalHosts == {"qhdsalsm.com", "www.qhdsalsm.com"}

\* isAllowedDomain of mockGoogleLogin
isAllowedDomain(host) == host \in LocalHosts \cup CanonicalHosts

\* the userData mockGoogleLogin builds at time t with Math.random() suffix rnd
MockUserData(id, t, rnd) ==
    LET f == [k \in {"userId", "username", "token", "googleId", "picture", "email"} |->
                CASE k = "userId" -> JStr("mock-" \o NumToString(t))
                  [] k = "username" -> Or(id.name, Or(id.email, JStr("Local User")))
                  [] k = "token" -> JStr("mock-token-" \o rnd)
                  [] k = "googleId" -> id.googleId
                  [] k = "picture" ->
                       Or(id.picture,
                          JStr("https://ui-avatars.com/api/?name="
                               \o encodeURIComponent(Or(id.name, JStr("User")).v)
                               \o "&background=random"))
                  [] OTHER -> Or(id.email, JStr(""))]
    IN JObj(<<"userId", "username", "token", "googleId", "picture", "email">>, f)

\* a variant of mockGoogleLogin() that leaves the usage count stored
mockGoogleLoginKeepingCount(st, url, host, t, rnd, id) ==
    IF ~isAllowedDomain(host) \/ ~Truthy(id.googleId)
    THEN [ok |-> FALSE, st |-> st, href |-> url, ui |-> <<>>]
    ELSE [ok |-> TRUE,
          st |-> updateAuthUI(setItem(st, "user", JSONstringify(MockUserData(id, t, rnd)))),
          href |-> CleanUrl(url, host),
          ui |-> <<AuthView(setItem(st, "user", JSONstringify(MockUserData(id, t, rnd))))>>]

\* a variant of mockGoogleLogin() that calls updateAuthUI() first and stores the Session
\* after it
mockGoogleLoginRenderFirst(st, url, host, t, rnd, id) ==
    IF ~isAllowedDomain(host) \/ ~Truthy(id.googleId)
    THEN [ok |-> FALSE, st |-> st, href |-> url, ui |-> <<>>]
    ELSE [ok |-> TRUE,
          st |-> removeItem(setItem(updateAuthUI(st), "user",
                                    JSONstringify(MockUserData(id, t, rnd))),
                            "usageCount"),
          href |-> CleanUrl(url, host),
          ui |-> <<AuthView(st)>>]

\* a variant of mockGoogleLogin() that tests no host
mockGoogleLoginAnyHost(st, url, host, t, rnd, id) ==
    IF ~Truthy(id.googleId)
    THEN [ok |-> FALSE, st |-> st, href |-> url, ui |-> <<>>]
    ELSE [ok |-> TRUE,
          st |-> updateAuthUI(removeItem(setItem(st, "user",
                                                 JSONstringify(MockUserData(id, t, rnd))),
                                         "usageCount")),
          href |-> CleanUrl(url, host),
          ui |-> <<AuthView(removeItem(setItem(st, "user",
                                               JSONstringify(MockUserData(id, t, rnd))),
                                       "usageCount"))>>]

\* mockGoogleLogin(googleId, name, email, picture): what it returns, the storage and the
\* visible URL it leaves, and what its updateAuthUI() renders
mockGoogleLogin(st, url, host, t, rnd, id) ==
    IF ~isAllowedDomain(host) \/ ~Truthy(id.googleId)
    THEN [ok |-> FALSE, st |-> st, href |-> url, ui |-> <<>>]
    ELSE [ok |-> TRUE,
          st |-> updateAuthUI(removeItem(setItem(st, "user",
                                                 JSONstringify(MockUserData(id, t, rnd))),
                                         "usageCount")),
          href |-> CleanUrl(url, host),
          ui |-> <<AuthView(removeItem(setItem(st, "user",
                                               JSONstringify(MockUserData(id, t, rnd))),
                                       "usageCount"))>>]


\* the first .then() of the exchange, given the body parsed: the data it passes on, or
\* the message of the Error it throws
ParsedResponse(parsed) ==
    IF parsed.ok THEN [ok |-> TRUE, data |-> parsed.val, message |-> ""]
    ELSE [ok |-> FALSE, data |-> JUndef, message |-> "Invalid JSON response: Unexpected token"]

\* the response of the exchange as the first .then() sees it
HandleResponse(resp) ==
    CASE resp.kind = "networkError" -> [ok |-> FALSE, data |-> JUndef, message |-> resp.text]
      [] ~resp.ok ->
           [ok |-> FALSE, data |-> JUndef,
            message |-> "Server responded with status: " \o NumToString(resp.status)]
      [] SkipWs(resp.text, 1) > Len(resp.text) ->
           [ok |-> FALSE, data |-> JUndef,
            message |-> "Invalid JSON response: Empty response from server"]
      [] OTHER -> ParsedResponse(JSONparse(resp.text))

\* a variant that prefers the name of the redirect to the username of the response
ExchangeUserDataOwnName(data, id) ==
    LET f == [k \in {"userId", "username", "token", "googleId", "picture", "email"} |->
                CASE k = "userId" -> Get(data, "user_id")
                  [] k = "username" ->
                       Or(id.name, Or(Get(data, "username"), Or(id.email, JStr("User"))))
                  [] k = "token" -> Get(data, "token")
                  [] k = "googleId" -> id.googleId
                  [] k = "picture" -> id.picture
                  [] OTHER -> Or(id.email, JStr(""))]
    IN JObj(<<"userId", "username", "token", "googleId", "picture", "email">>, f)

\* the userData the success path builds from the response data and the captured identity
ExchangeUserData(data, id) ==
    LET f == [k \in {"userId", "username", "token", "googleId", "picture", "email"} |->
                CASE k = "userId" -> Get(data, "user_id")
                  [] k = "username" ->
                       Or(Get(data, "username"), Or(id.name, Or(id.email, JStr("User"))))
                  [] k = "token" -> Get(data, "token")
                  [] k = "googleId" -> id.googleId
                  [] k = "picture" -> id.picture
                  [] OTHER -> Or(id.email, JStr(""))]
    IN JObj(<<"userId", "username", "token", "googleId", "picture", "email">>, f)

\* the message of the Error the second .then() throws when the data carries no token
NoTokenMessage(data) ==
    IF data.t = "null" THEN "Cannot read properties of null (reading 'token')"
    ELSE Or(Get(data, "error"), JStr("Login failed: Invalid response from server")).v

\* a variant of the .catch() that shows nothing when the fallback is refused
CatchExchangeSilent(st, url, msg, fallback, message) ==
    IF fallback.ok
    THEN [st |-> fallback.st, href |-> fallback.href, msg |-> msg, session |-> TRUE,
          ui |-> fallback.ui]
    ELSE [st |-> st, href |-> url, msg |-> msg, session |-> FALSE, ui |-> <<>>]

\* the .catch() of the exchange: mockGoogleLogin as a fallback, else the message shown
CatchExchange(st, url, msg, fallback, message) ==
    IF fallback.ok
    THEN [st |-> fallback.st, href |-> fallback.href, msg |-> msg, session |-> TRUE,
          ui |-> fallback.ui]
    ELSE [st |-> st, href |-> url, msg |-> "Google login failed: " \o message,
          session |-> FALSE, ui |-> <<>>]

\* the success path throws after login(userData): in updateAuthUI(), building the
\* generated avatar from the stored username, or building the welcome text from
\* userData.username
SuccessThrows(st, userData) ==
    AuthView(st).threw \/ ToStringThrows(Get(userData, "username"))

\* what the .catch() leaves when the success path threw after login(userData): the store
\* was written and updateAuthUI() had rendered view before the .catch() ran
AfterStore(caught, view) ==
    [caught EXCEPT !.session = TRUE, !.ui = <<view>> \o caught.ui]

\* the second .then() of the exchange, given what the first one passed on
ThenExchange(st, url, host, msg, t, rnd, id, r) ==
    CASE ~r.ok -> CatchExchange(st, url, msg, mockGoogleLogin(st, url, host, t, rnd, id), r.message)
      [] r.data.t = "null" \/ ~Truthy(Get(r.data, "token")) ->
           CatchExchange(st, url, msg, mockGoogleLogin(st, url, host, t, rnd, id),
                         NoTokenMessage(r.data))
      [] SuccessThrows(login(st, ExchangeUserData(r.data, id)), ExchangeUserData(r.data, id)) ->
           AfterStore(CatchExchange(updateAuthUI(login(st, ExchangeUserData(r.data, id))),
                                    url, msg,
                                    mockGoogleLogin(updateAuthUI(login(st,
                                                        ExchangeUserData(r.data, id))),
                                                    url, host, t, rnd, id),
                                    NotPrimitiveMessage),
                      AuthView(login(st, ExchangeUserData(r.data, id))))
      [] OTHER ->
           [st |-> updateAuthUI(login(st, ExchangeUserData(r.data, id))),
            href |-> CleanUrl(url, host), msg |-> msg, session |-> TRUE,
            ui |-> <<AuthView(login(st, ExchangeUserData(r.data, id)))>>]

\* the handlers of the exchange: the storage, visible URL and #loginMessage they leave
CompleteExchange(st, url, host, msg, t, rnd, id, resp) ==
    ThenExchange(st, url, host, msg, t, rnd, id, HandleResponse(resp))

\* the branch of processGoogleLoginData() taken on the development and production hosts
MockBranch(msg, mock) ==
    [st |-> mock.st, href |-> mock.href, msg |-> msg, started |-> <<>>, session |-> mock.ok,
     ui |-> mock.ui]

\* a variant that synthesizes the Session on the development hosts only
ProcessIdentityLocalOnly(st, url, host, msg, t, rnd, id) ==
    CASE ~Truthy(id.googleId) ->
           [st |-> st, href |-> url,
            msg |-> "Google login failed: Missing required information",
            started |-> <<>>, session |-> FALSE, ui |-> <<>>]
      [] host \in LocalHosts -> MockBranch(msg, mockGoogleLogin(st, url, host, t, rnd, id))
      [] OTHER ->
           [st |-> st, href |-> url, msg |-> msg, started |-> <<id>>, session |-> FALSE,
            ui |-> <<>>]

\* a variant that does not test the google_id it has read
ProcessIdentityUntested(st, url, host, msg, t, rnd, id) ==
    CASE host \in LocalHosts -> MockBranch(msg, mockGoogleLogin(st, url, host, t, rnd, id))
      [] host \in CanonicalHosts -> MockBranch(msg, mockGoogleLogin(st, url, host, t, rnd, id))
      [] OTHER ->
           [st |-> st, href |-> url, msg |-> msg, started |-> <<id>>, session |-> FALSE,
            ui |-> <<>>]

\* a variant that stores the identity as a provisional Session when it starts the exchange
ProcessIdentityProvisional(st, url, host, msg, t, rnd, id) ==
    CASE ~Truthy(id.googleId) ->
           [st |-> st, href |-> url,
            msg |-> "Google login failed: Missing required information",
            started |-> <<>>, session |-> FALSE, ui |-> <<>>]
      [] host \in LocalHosts -> MockBranch(msg, mockGoogleLogin(st, url, host, t, rnd, id))
      [] host \in CanonicalHosts -> MockBranch(msg, mockGoogleLogin(st, url, host, t, rnd, id))
      [] OTHER ->
           [st |-> setItem(st, "user",
                           JSONstringify(JObj(<<"googleId">>,
                                              [k \in {"googleId"} |-> id.googleId]))),
            href |-> url, msg |-> msg, started |-> <<id>>, session |-> FALSE, ui |-> <<>>]

\* processGoogleLoginData() once the identity is read from the URL
ProcessIdentity(st, url, host, msg, t, rnd, id) ==
    CASE ~Truthy(id.googleId) ->
           [st |-> st, href |-> url,
            msg |-> "Google login failed: Missing required information",
            started |-> <<>>, session |-> FALSE, ui |-> <<>>]
      [] host \in LocalHosts -> MockBranch(msg, mockGoogleLogin(st, url, host, t, rnd, id))
      [] host \in CanonicalHosts -> MockBranch(msg, mockGoogleLogin(st, url, host, t, rnd, id))
      [] OTHER ->
           [st |-> st, href |-> url, msg |-> msg, started |-> <<id>>, session |-> FALSE,
            ui |-> <<>>]

\* a variant that reports a URL without 'google_id=' as it reports a missing google_id
processGoogleLoginDataReporting(st, url, host, msg, t, rnd) ==
    IF ~Includes(url, "google_id=")
    THEN [st |-> st, href |-> url, msg |-> "Google login failed: Missing required information",
          started |-> <<>>, session |-> FALSE, ui |-> <<>>]
    ELSE ProcessIdentity(st, url, host, msg, t, rnd, Identity(ExtractParams(url, host)))

\* processGoogleLoginData(): the storage, visible URL and #loginMessage it leaves, and the
\* exchanges it starts
processGoogleLoginData(st, url, host, msg, t, rnd) ==
    IF ~Includes(url, "google_id=")
    THEN [st |-> st, href |-> url, msg |-> msg, started |-> <<>>, session |-> FALSE,
          ui |-> <<>>]
    ELSE ProcessIdentity(st, url, host, msg, t, rnd, Identity(ExtractParams(url, host)))

\* the message the error check shows for the 'error' parameter
AuthErrorMessage(error) ==
    "Google login failed: " \o (IF error.t = "null" THEN "Authentication failed" ELSE error.v)

\* the first DOMContentLoaded listener: the URL and #loginMessage the error check leaves
AuthErrorCheck(url, host) ==
    IF ~Includes(url, "error=") THEN [href |-> url, msg |-> ""]
    ELSE [href |-> CleanUrl(url, host),
          msg |-> AuthErrorMessage(ParamsGet(URLSearchParams(LocationSearch(url, host)),
                                             "error"))]

\* processGoogleLoginData() run once more, on what its first run left
AutoLoginAgain(first, host, t, rnd) ==
    [processGoogleLoginData(first.st, first.href, host, first.msg, t, rnd)
        EXCEPT !.started = first.started \o @, !.session = first.session \/ @,
               !.ui = first.ui \o @]

\* a variant in which the listener calls processGoogleLoginData() a second time
AutoLoginTwice(st, host, e, t, rnd) ==
    AutoLoginAgain(processGoogleLoginData(st, e.href, host, e.msg, t, rnd), host, t, rnd)

\* the second DOMContentLoaded listener, run after the first left e
AutoLogin(st, host, e, t, rnd) == processGoogleLoginData(st, e.href, host, e.msg, t, rnd)

\* the userData emergencyLogin(name, email) builds at time t with Math.random() suffix rnd
EmergencyUserData(name, email, t, rnd) ==
    LET username == Or(name, Or(email, JStr("Emergency User")))
        f == [k \in {"userId", "username", "token", "googleId", "picture"} |->
                CASE k = "userId" -> JStr("emergency-" \o NumToString(t))
                  [] k = "username" -> username
                  [] k = "token" -> JStr("emergency-token-" \o rnd)
                  [] k = "googleId" -> JStr("emergency-" \o NumToString(t))
                  [] OTHER -> JStr("https://ui-avatars.com/api/?name="
                                   \o encodeURIComponent(username.v) \o "&background=random")]
    IN JObj(<<"userId", "username", "token", "googleId", "picture">>, f)

\* String.prototype.trim()
RECURSIVE TrimEnd(_)
TrimEnd(s) == IF Len(s) > 0 /\ IsWs(Ch(s, Len(s))) THEN TrimEnd(SubSeq(s, 1, Len(s) - 1)) ELSE s

Trim(s) == TrimEnd(SubSeq(s, SkipWs(s, 1), Len(s)))

----------------------------------------------------------------------------
(* Inputs of the model *)

Hosts == LocalHosts \cup CanonicalHosts \cup {"dreams.example"}

\* what follows "http://<host>/" in the address the login provider redirects to: the
\* parameters in the query string, in the fragment and appended to the path, with and
\* without an error parameter
RedirectSuffixes ==
    {"", "?google_id=x&name=Bo", "#google_id=x&email=a%40b.c", "?google_id=&name=Bo",
     "?error=access_denied", "?google_id=x&error=access_denied",
     "google_id=x&name=Bo", "google_id=x?error=access_denied"}

\* the addresses loaded where a stored Session is followed: the page itself and a redirect
ReloadSuffixes == {"", "?google_id=x&name=Bo"}

\* the addresses loaded where the usage gate is followed: the page itself, a redirect
\* with an identity and a redirect with a denial
GateSuffixes == {"", "?google_id=x&name=Bo", "?error=access_denied"}

\* parameter strings a redirect carries, google_id first: plain ones, one with a
\* percent-encoded value, one with a '+' for a space and one with a '~'
ParamContents ==
    {"google_id=abc&name=Bo", "google_id=abc&email=a%40b.c", "google_id=a-b.c&name=Bo%20Li",
     "google_id=abc&name=Bo+Li", "google_id=a~b&name=Bo"}

\* the four shapes of a redirect address: what stands between "http://<host>/" and the
\* parameters
ShapePrefixes == {"?", "#", "", "cb;"}

\* addresses in which the key occurs more than once or follows another parameter
MixedSuffixes ==
    {"?google_id=q#google_id=f", "#google_id=f?google_id=q", "google_id=s?google_id=q",
     "google_id=s#google_id=f", "cb;google_id=d#google_id=f", "cb;google_id=d/google_id=s",
     "?a=1&google_id=d&name=Bo", "?name=Bo"}

\* addresses whose parameters are not well formed: a '%' without two hex digits, pieces
\* without a name or without '=', characters the scan stops at, the key without its '='
MalformedSuffixes ==
    {"?google_id=%zz&name=%", "#google_id=a%2", "google_id=%&&=x", "cb;google_id=a{b}&name",
     "?google_id", "?=&google_id=a=b"}

\* the addresses the extraction is applied to, each with the parameter string it was
\* built from ("" for a mixed or a malformed one)
\* addresses whose text after 'google_id=' the regular expressions read on their own
MatchInputs ==
    {[suffix |-> suffix, content |-> ""] :
        suffix \in {"cb/google_id=x&name=Bo", "cb/google_id=a%40b&name=Bo",
                    "cb;google_id=x&name=%zz", "cb;google_id=x&username=Al&name=Bo",
                    "cb;google_id=&google_id=x"}}

ExtractInputs ==
    {[suffix |-> prefix \o content, content |-> content] :
        prefix \in ShapePrefixes, content \in ParamContents}
    \cup {[suffix |-> suffix, content |-> ""] : suffix \in MixedSuffixes \cup MalformedSuffixes}

\* the digits Math.random().toString(36).substring(2) yields
RandomSuffixes == {"k3x"}

\* what the exchange can complete with
Http(status, text) ==
    [kind |-> "http", ok |-> status \in 200..299, status |-> status, text |-> text]

NetworkError == [kind |-> "networkError", ok |-> FALSE, status |-> 0, text |-> "Failed to fetch"]

Responses ==
    {NetworkError,
     Http(500, "Internal Server Error"),
     Http(200, ""),
     Http(200, "<html>"),
     Http(200, "{\"username\":\"Ann\"}"),
     Http(200, "{\"token\":\"srv-2\"}"),
     Http(200, "{\"token\":\"srv-1\",\"username\":\"Ann\",\"user_id\":7}")}

\* a response of the exchange whose username is an object, not a string
FaultyResponses == {Http(200, "{\"token\":\"srv-3\",\"username\":{\"toString\":1}}")}

\* the arguments of a call of mockGoogleLogin(): a google id, an empty one, none
MockArgs ==
    {[googleId |-> JStr("x"), name |-> JStr("Bo"), email |-> JNull, picture |-> JNull],
     [googleId |-> JStr(""), name |-> JStr("Bo"), email |-> JNull, picture |-> JNull],
     [googleId |-> JUndef, name |-> JUndef, email |-> JUndef, picture |-> JUndef]}

\* strings a stored 'user' record can hold that are not a serialized Session
CorruptRecords == {"", "{", "null"}

DreamTexts == {"", "  ", "I was flying"}

\* a Session value as the code builds it: the six properties in the order it writes them
Session(userId, username, token, googleId, picture, email) ==
    JObj(<<"userId", "username", "token", "googleId", "picture", "email">>,
         [k \in {"userId", "username", "token", "googleId", "picture", "email"} |->
            CASE k = "userId" -> userId
              [] k = "username" -> username
              [] k = "token" -> token
              [] k = "googleId" -> googleId
              [] k = "picture" -> picture
              [] OTHER -> email])

\* Session values login() is called with: strings with quotes, backslashes and line
\* breaks, a numeric userId, and properties that are null or undefined
Sessions ==
    {Session(userId, username, JStr("tok-1"), JStr("x"), picture, email) :
        userId \in {JStr("u1"), JNum(7), JUndef},
        username \in {JStr("Bo"), JStr("q\"uo\\te"), JStr("two\nlines")},
        picture \in {JNull, JStr("https://p.example/a.png?s=1&t=2")},
        email \in {JStr(""), JStr("a@b.c")}}

\* the arguments emergencyLogin is called with
EmergencyArgs == {<<JUndef, JUndef>>, <<JStr("Eve"), JUndef>>}

ClockValues(hours) == {k * PromptCooldownMs + e : k \in 0..hours, e \in {0, 1}}

\* no non-empty 'user' record is stored
Anonymous(st) == ~("user" \in DOMAIN st /\ st["user"] # "")

\* what an operation found when it ran: the 'user' record stored, or whether a usage
\* count was stored, or that and the text of #loginMessage
NotRecorded == [user |-> JUndef, count |-> FALSE, message |-> ""]
FoundUser == [user |-> getItem(localStorage, "user"), count |-> FALSE, message |-> ""]
FoundCount == [user |-> JUndef, count |-> "usageCount" \in DOMAIN localStorage, message |-> ""]
FoundMessage(msg) ==
    [user |-> JUndef, count |-> "usageCount" \in DOMAIN localStorage, message |-> msg]

\* the tabs open on the page, and a tab that is inside no call
Tabs == {"A", "B"}

Idle == [pc |-> "idle", count |-> 0, time |-> 0]

\* a tab at the storage access named pc, with the locals count and now of its call
At(pc, count, time) == [pc |-> pc, count |-> count, time |-> time]

\* a variant of the first access of incrementUsageCount() that does not test isLoggedIn()
UseBeginUnchecked(st) == At("count", 0, 0)

\* incrementUsageCount(), first access: isLoggedIn() reads 'user' and the call returns
\* when it is there
UseBegin(st) == IF isLoggedIn(st) THEN Idle ELSE At("count", 0, 0)

\* second access: the count is read and one is added to the local
UseCount(st) == At("store", Successor(parseInt(Or(getItem(st, "usageCount"), JStr("0")).v)), 0)

\* third access: the local is stored; showLoginPrompt() is called for 15 and more
UseStore(st, count) ==
    [st |-> setItem(st, "usageCount", NumToString(count)),
     tab |-> IF count # NaN /\ count >= PromptThreshold THEN At("prompt", count, 0) ELSE Idle]

\* showLoginPrompt(), first access: the time of the last prompt is read and the prompt is
\* prepended unless one was shown within the hour
PromptRead(st, t, count) ==
    [shown |-> PromptAfter(st, t, getItem(st, "lastLoginPromptTime")).shown,
     tab |-> IF PromptAfter(st, t, getItem(st, "lastLoginPromptTime")).shown
             THEN At("stamp", count, t) ELSE Idle]

\* showLoginPrompt(), second access: the time read before the prompt was prepended is stored
PromptStamp(st, time) == setItem(st, "lastLoginPromptTime", NumToString(time))

\* login(userData), first access: the Session is stored
SaveBegin(st, userData) == setItem(st, "user", JSONstringify(userData))

\* login(userData), second access: the usage count is removed
SaveClear(st) == removeItem(st, "usageCount")

\* the Session a tab logs in with
TabSessions == {Session(JStr("u1"), JStr("Bo"), JStr("tok-1"), JStr("x"), JNull, JStr(""))}

\* the input of an operation is a record; of an operation that takes none, this one
NoArg == [none |-> TRUE]

Op(name, arg, found) == [op |-> name, arg |-> arg, found |-> found]

----------------------------------------------------------------------------
(* The state machine *)

Init ==
    /\ localStorage = EmptyStorage
    /\ now = 0
    /\ hostname \in Hosts
    /\ href = Origin(hostname) \o "/"
    /\ fetches = <<>>
    /\ loginMessage = ""
    /\ promptLog = <<>>
    /\ nUses = 0
    /\ lastOp = Op("init", NoArg, NotRecorded)
    /\ ret = JUndef
    /\ rendered = <<>>
    /\ tabs = [tab \in Tabs |-> Idle]

\* time passes
Tick(hours) ==
    /\ \E t \in ClockValues(hours) : t > now /\ now' = t
    /\ lastOp' = Op("tick", NoArg, NotRecorded)
    /\ ret' = JUndef
    /\ rendered' = <<>>
    /\ UNCHANGED <<localStorage, hostname, tabs, href, fetches, loginMessage, promptLog, nUses>>

\* what a page load leaves, p being what processGoogleLoginData() left
Loaded(p) ==
    /\ localStorage' = updateAuthUI(p.st)
    /\ href' = p.href
    /\ loginMessage' = p.msg
    /\ fetches' = p.started
    /\ nUses' = IF p.session THEN 0 ELSE nUses
    /\ ret' = JBool(p.session)
    /\ rendered' = p.ui \o <<AuthView(p.st)>>

\* the browser loads the page at an address: a pending exchange of the page left is
\* discarded, then the DOMContentLoaded listeners run in the order they were added
PageLoad(suffixes) ==
    /\ \E suffix \in suffixes, rnd \in RandomSuffixes :
          /\ Loaded(AutoLogin(localStorage, hostname,
                              AuthErrorCheck(Origin(hostname) \o "/" \o suffix, hostname),
                              now, rnd))
          /\ lastOp' = Op("pageLoad", [url |-> Origin(hostname) \o "/" \o suffix],
                          FoundMessage(AuthErrorCheck(Origin(hostname) \o "/" \o suffix,
                                                      hostname).msg))
    /\ UNCHANGED <<now, hostname, tabs, promptLog>>

\* what the handlers of the exchange leave
Completed(c) ==
    /\ localStorage' = c.st
    /\ href' = c.href
    /\ loginMessage' = c.msg
    /\ nUses' = IF c.session THEN 0 ELSE nUses
    /\ ret' = JBool(c.session)
    /\ rendered' = c.ui

\* the pending exchange completes and its .then()/.catch() handlers run
FetchComplete ==
    /\ fetches # <<>>
    /\ \E resp \in Responses, rnd \in RandomSuffixes :
          /\ Completed(CompleteExchange(localStorage, href, hostname, loginMessage, now, rnd,
                                        Head(fetches), resp))
          /\ lastOp' = Op("fetchComplete", resp, FoundMessage(loginMessage))
    /\ fetches' = Tail(fetches)
    /\ UNCHANGED <<now, hostname, tabs, promptLog>>

\* the pending exchange completes with a response whose username is an object
FetchFaulty ==
    /\ fetches # <<>>
    /\ \E resp \in FaultyResponses, rnd \in RandomSuffixes :
          /\ Completed(CompleteExchange(localStorage, href, hostname, loginMessage, now, rnd,
                                        Head(fetches), resp))
          /\ lastOp' = Op("fetchComplete", resp, FoundMessage(loginMessage))
    /\ fetches' = Tail(fetches)
    /\ UNCHANGED <<now, hostname, tabs, promptLog>>

\* what a click that reaches the gate leaves, r being what incrementUsageCount() left
Counted(r) ==
    /\ localStorage' = r.st
    /\ promptLog' = IF r.shown THEN Append(promptLog, now) ELSE promptLog
    /\ ret' = JBool(r.shown)
    /\ rendered' = <<>>

\* the click handler of #interpretButton: an empty dream text returns before the gate
InterpretClick(maxUses) ==
    \E dreamText \in DreamTexts :
        IF Trim(dreamText) = "" THEN UNCHANGED vars
        ELSE /\ Anonymous(localStorage) => nUses < maxUses
             /\ Counted(incrementUsageCount(localStorage, now))
             /\ nUses' = IF Anonymous(localStorage) THEN nUses + 1 ELSE nUses
             /\ lastOp' = Op("incrementUsageCount", NoArg, NotRecorded)
             /\ UNCHANGED <<now, hostname, tabs, href, fetches, loginMessage>>

\* login(userData), called with a Session value
Login(sessions) ==
    \E userData \in sessions :
        /\ localStorage' = login(localStorage, userData)
        /\ nUses' = 0
        /\ lastOp' = Op("login", userData, FoundCount)
        /\ ret' = JBool(TRUE)
        /\ rendered' = <<>>
        /\ UNCHANGED <<now, hostname, tabs, href, fetches, loginMessage, promptLog>>

\* the click handler of #logoutLink
Logout ==
    /\ localStorage' = logout(localStorage)
    /\ lastOp' = Op("logout", NoArg, FoundUser)
    /\ ret' = JUndef
    /\ rendered' = <<AuthView(removeItem(localStorage, "user"))>>
    /\ UNCHANGED <<now, hostname, tabs, href, fetches, loginMessage, promptLog, nUses>>

\* what a read of the current user leaves
Read(r) ==
    /\ localStorage' = r.st
    /\ ret' = r.ret
    /\ rendered' = <<>>

\* a caller reads the current user: getCurrentUser()
LoadUser ==
    /\ Read(getCurrentUser(localStorage))
    /\ lastOp' = Op("getCurrentUser", NoArg, FoundUser)
    /\ UNCHANGED <<now, hostname, tabs, href, fetches, loginMessage, promptLog, nUses>>

\* emergencyLogin(name, email), called from the console: login() and its .then()
EmergencyLogin ==
    \E args \in EmergencyArgs, rnd \in RandomSuffixes :
        /\ localStorage' =
               updateAuthUI(login(localStorage,
                                  EmergencyUserData(args[1], args[2], now, rnd)))
        /\ href' = CleanUrl(href, hostname)
        /\ nUses' = 0
        /\ lastOp' = Op("emergencyLogin", [name |-> args[1], email |-> args[2]], FoundCount)
        /\ ret' = JBool(TRUE)
        /\ rendered' =
               <<AuthView(login(localStorage, EmergencyUserData(args[1], args[2], now, rnd)))>>
        /\ UNCHANGED <<now, hostname, tabs, fetches, loginMessage, promptLog>>

\* what a call of mockGoogleLogin() leaves, m being what it returned and did
Mocked(m) ==
    /\ localStorage' = m.st
    /\ href' = m.href
    /\ nUses' = IF m.ok THEN 0 ELSE nUses
    /\ ret' = JBool(m.ok)
    /\ rendered' = m.ui

\* mockGoogleLogin(googleId, name, email, picture), called in the page
MockGoogleLogin ==
    \E id \in MockArgs, rnd \in RandomSuffixes :
        /\ Mocked(mockGoogleLogin(localStorage, href, hostname, now, rnd, id))
        /\ lastOp' = Op("mockGoogleLogin", id, FoundCount)
        /\ UNCHANGED <<now, hostname, tabs, fetches, loginMessage, promptLog>>

\* the stored 'user' record is overwritten from outside the page's code with a string
\* that is no serialized Session: the data getCurrentUser() guards against
CorruptUser ==
    \E c \in CorruptRecords :
        /\ localStorage' = setItem(localStorage, "user", c)
        /\ lastOp' = Op("corrupt", NoArg, NotRecorded)
        /\ ret' = JUndef
        /\ rendered' = <<>>
        /\ UNCHANGED <<now, hostname, tabs, href, fetches, loginMessage, promptLog, nUses>>

\* the login flow and the session store on every host, with few uses of the interpreter
Next ==
    \/ Tick(0)
    \/ PageLoad(RedirectSuffixes)
    \/ FetchComplete
    \/ InterpretClick(MaxClicks)
    \/ Logout
    \/ LoadUser
    \/ EmergencyLogin
    \/ CorruptUser

Spec == Init /\ [][Next]_vars

\* the usage gate over hours and many uses of the interpreter, on the development host
GateInit == Init /\ hostname = "localhost"

GateNext ==
    \/ Tick(MaxHours)
    \/ InterpretClick(MaxUses)
    \/ PageLoad(GateSuffixes)
    \/ Logout

GateSpec == GateInit /\ [][GateNext]_vars

\* the session store alone: Session values of every shape are saved, read and cleared
StoreInit == Init /\ hostname = "localhost"

StoreNext ==
    \/ Login(Sessions)
    \/ LoadUser
    \/ Logout
    \/ CorruptUser

StoreSpec == StoreInit /\ [][StoreNext]_vars

\* one visit on the development host: a visitor with nothing stored uses the interpreter,
\* then logs in through mockGoogleLogin() and stays logged in
VisitNext ==
    \/ Tick(MaxHours)
    \/ InterpretClick(MaxUses)
    \/ PageLoad(GateSuffixes)

VisitSpec == GateInit /\ [][VisitNext]_vars

\* the browser is at an address and processGoogleLoginData() parses its parameters
Extract ==
    /\ \E input \in ExtractInputs :
          /\ href' = Origin(hostname) \o "/" \o input.suffix
          /\ ret' = ExtractIdentity(Origin(hostname) \o "/" \o input.suffix, hostname)
          /\ lastOp' = Op("extract",
                          [url |-> Origin(hostname) \o "/" \o input.suffix,
                           content |-> input.content],
                          NotRecorded)
    /\ rendered' = <<>>
    /\ UNCHANGED <<localStorage, now, hostname, tabs, fetches, loginMessage, promptLog, nUses>>

\* the life of a stored Session on the development host: hours pass, the page is
\* reloaded, the interpreter is used, the user is read, the record is damaged, the user
\* logs out and logs in again
SessionNext ==
    \/ Tick(MaxHours)
    \/ PageLoad(ReloadSuffixes)
    \/ InterpretClick(MaxUses)
    \/ LoadUser
    \/ CorruptUser
    \/ Logout

SessionSpec == GateInit /\ [][SessionNext]_vars

\* a tab takes the next storage access of the call it is in, or enters a call
TabStep(tab, call, line) ==
    /\ lastOp' = Op("tabStep", [tab |-> tab, call |-> call, line |-> line], NotRecorded)
    /\ ret' = JUndef
    /\ rendered' = <<>>
    /\ UNCHANGED <<now, hostname, href, fetches, loginMessage>>

TabUseBegin ==
    \E tab \in Tabs :
        /\ tabs[tab] = Idle /\ nUses < MaxUses
        /\ tabs' = [tabs EXCEPT ![tab] = UseBegin(localStorage)]
        /\ nUses' = IF isLoggedIn(localStorage) THEN nUses ELSE nUses + 1
        /\ TabStep(tab, "incrementUsageCount", 59)
        /\ UNCHANGED <<localStorage, promptLog>>

TabUseCount ==
    \E tab \in Tabs :
        /\ tabs[tab].pc = "count"
        /\ tabs' = [tabs EXCEPT ![tab] = UseCount(localStorage)]
        /\ TabStep(tab, "incrementUsageCount", 61)
        /\ UNCHANGED <<localStorage, promptLog, nUses>>

TabUseStore ==
    \E tab \in Tabs :
        /\ tabs[tab].pc = "store"
        /\ localStorage' = UseStore(localStorage, tabs[tab].count).st
        /\ tabs' = [tabs EXCEPT ![tab] = UseStore(localStorage, tabs[tab].count).tab]
        /\ TabStep(tab, "incrementUsageCount", 63)
        /\ UNCHANGED <<promptLog, nUses>>

TabPromptRead ==
    \E tab \in Tabs :
        /\ tabs[tab].pc = "prompt"
        /\ tabs' = [tabs EXCEPT ![tab] = PromptRead(localStorage, now, tabs[tab].count).tab]
        /\ promptLog' = IF PromptRead(localStorage, now, tabs[tab].count).shown
                        THEN Append(promptLog, now) ELSE promptLog
        /\ TabStep(tab, "showLoginPrompt", 76)
        /\ UNCHANGED <<localStorage, nUses>>

TabPromptStamp ==
    \E tab \in Tabs :
        /\ tabs[tab].pc = "stamp"
        /\ localStorage' = PromptStamp(localStorage, tabs[tab].time)
        /\ tabs' = [tabs EXCEPT ![tab] = Idle]
        /\ TabStep(tab, "showLoginPrompt", 110)
        /\ UNCHANGED <<promptLog, nUses>>

TabSaveBegin ==
    \E tab \in Tabs, userData \in TabSessions :
        /\ tabs[tab] = Idle
        /\ localStorage' = SaveBegin(localStorage, userData)
        /\ tabs' = [tabs EXCEPT ![tab] = At("clear", 0, 0)]
        /\ nUses' = 0
        /\ TabStep(tab, "login", 8)
        /\ UNCHANGED promptLog

TabSaveClear ==
    \E tab \in Tabs :
        /\ tabs[tab].pc = "clear"
        /\ localStorage' = SaveClear(localStorage)
        /\ tabs' = [tabs EXCEPT ![tab] = Idle]
        /\ TabStep(tab, "login", 11)
        /\ UNCHANGED <<promptLog, nUses>>

\* the exchange on a host without mockGoogleLogin(): while it is pending hours pass, the
\* interpreter is used, the user logs out, the page is reloaded or left for the redirect
\* address
PendingInit == Init /\ hostname = "dreams.example"

PendingNext ==
    \/ Tick(MaxHours)
    \/ PageLoad(ReloadSuffixes)
    \/ FetchComplete
    \/ InterpretClick(MaxClicks)
    \/ Logout

PendingSpec == PendingInit /\ [][PendingNext]_vars

\* mockGoogleLogin() called on a development host and on a host that is neither local
\* nor canonical, with the usage count and the time of the prompt stored or not
MockInit == Init /\ hostname \in {"localhost", "dreams.example"}

MockNext ==
    \/ Tick(MaxHours)
    \/ InterpretClick(MaxUses)
    \/ MockGoogleLogin
    \/ Logout

MockSpec == MockInit /\ [][MockNext]_vars

\* addresses loaded on a host that exchanges: without an identity, and with one that
\* carries no picture or carries one
FaultSuffixes == {"", "?google_id=x&name=Bo", "?google_id=x&picture=p.png"}

\* page loads on a host that exchanges, the exchange completing with any response, one
\* whose username is an object included
FaultNext ==
    \/ Tick(MaxHours)
    \/ PageLoad(FaultSuffixes)
    \/ FetchComplete
    \/ FetchFaulty

\* the browser runs the handlers of a pending exchange once it completes
FaultSpec ==
    PendingInit /\ [][FaultNext]_vars /\ WF_fetches(FetchComplete \/ FetchFaulty)

\* two tabs on the development host share the storage; each runs incrementUsageCount()
\* and login() one storage access at a time, in any interleaving
TabsNext ==
    \/ TabUseBegin
    \/ TabUseCount
    \/ TabUseStore
    \/ TabPromptRead
    \/ TabPromptStamp
    \/ TabSaveBegin
    \/ TabSaveClear

TabsSpec == GateInit /\ [][TabsNext]_vars

\* the parameter parsing alone, applied to addresses of every shape on every host
\* the extraction of testLoginFromCurrentUrl() applied to an address
TestExtract ==
    /\ \E input \in ExtractInputs \cup MatchInputs :
          /\ href' = Origin(hostname) \o "/" \o input.suffix
          /\ ret' = PassedIdentity(Origin(hostname) \o "/" \o input.suffix, hostname)
          /\ lastOp' = Op("testExtract",
                          [url |-> Origin(hostname) \o "/" \o input.suffix,
                           content |-> input.content],
                          NotRecorded)
    /\ rendered' = <<>>
    /\ UNCHANGED <<localStorage, now, hostname, tabs, fetches, loginMessage, promptLog, nUses>>

ExtractNext == Extract

\* the two extractions applied to the same addresses
AgreeNext ==
    \/ Extract
    \/ TestExtract

AgreeSpec == Init /\ [][AgreeNext]_vars

ExtractSpec == Init /\ [][ExtractNext]_vars

\* the visitor stays on the page while an exchange is pending
Navigate(suffixes) == fetches = <<>> /\ PageLoad(suffixes)

\* the login flow where every exchange started is left to complete: the page is not left
\* while one is pending, and the browser runs the handlers of a settled fetch
ResolveNext ==
    \/ Navigate(RedirectSuffixes)
    \/ FetchComplete
    \/ Logout
    \/ EmergencyLogin
    \/ CorruptUser

ResolveSpec == Init /\ [][ResolveNext]_vars /\ WF_fetches(FetchComplete)

----------------------------------------------------------------------------
(* Properties *)

\* the last operation showed the login prompt
Shown == ret = JBool(TRUE)

\* the last operation was a call of incrementUsageCount() with no 'user' record stored:
\* the nUses-th such call since a Session was last stored
CountedUse == lastOp.op = "incrementUsageCount" /\ Anonymous(localStorage)

\* the prompts shown before the last operation
EarlierPrompts ==
    IF Shown /\ promptLog # <<>> THEN SubSeq(promptLog, 1, Len(promptLog) - 1) ELSE promptLog

\* the time since the last of the earlier prompts
SinceLastPrompt == now - EarlierPrompts[Len(EarlierPrompts)]

\* getCurrentUser() would return a Session
HasSession(st) == getCurrentUser(st).ret.t = "obj"

\* C1: with nothing stored at the start, the first 14 calls of incrementUsageCount()
\* show no prompt and the 15th shows it; a later call shows no prompt while at most
\* 3600 seconds have passed since the last prompt, and shows it once more have passed.
C1_Threshold ==
    CountedUse =>
        /\ nUses < PromptThreshold => ~Shown
        /\ (nUses = PromptThreshold /\ EarlierPrompts = <<>>) => Shown /\ promptLog = <<now>>
        /\ (nUses > PromptThreshold /\ EarlierPrompts # <<>>) =>
              (Shown <=> SinceLastPrompt > 3600 * 1000)

\* a 17th call, made more than an hour after the 15th showed the prompt, shows it again
C1_Witness ==
    /\ CountedUse /\ nUses > PromptThreshold /\ Shown
    /\ Len(promptLog) = 2

\* C2: any two prompts shown by incrementUsageCount() are more than 3600 seconds apart,
\* whatever calls, logins and logouts come between them.
C2_PromptsApart ==
    \A i, j \in DOMAIN promptLog : i < j => promptLog[j] - promptLog[i] > 3600 * 1000

\* two prompts were shown, and the visitor logged in or out since the first
C2_Witness == Len(promptLog) >= 2 /\ nUses < PromptThreshold

\* C3: incrementUsageCount() called while a Session is stored shows no prompt and leaves
\* the usage count, the prompt time and the 'user' record as they were.
C3_NoOpWithSession ==
    [][(lastOp'.op = "incrementUsageCount" /\ HasSession(localStorage)) =>
           /\ localStorage' = localStorage
           /\ promptLog' = promptLog
           /\ ret' = JBool(FALSE)]_vars

\* incrementUsageCount() ran with a Session stored and a prompt time stored before it
C3_Witness ==
    /\ lastOp.op = "incrementUsageCount" /\ HasSession(localStorage)
    /\ "lastLoginPromptTime" \in DOMAIN localStorage

\* C4: after every operation that stores a Session (login(), the success path of the
\* exchange, mockGoogleLogin(), emergencyLogin()) no usage count is stored.
C4_SaveClearsCount ==
    (lastOp.op \in {"login", "pageLoad", "fetchComplete", "emergencyLogin"} /\ ret = JBool(TRUE))
        => /\ HasSession(localStorage)
           /\ "usageCount" \notin DOMAIN localStorage

\* the exchange succeeded and stored a Session while a usage count was stored
C4_Witness ==
    /\ lastOp.op = "fetchComplete" /\ ret = JBool(TRUE)
    /\ lastOp.found.count /\ HasSession(localStorage)

\* the stored 'user' record is a string JSON.parse() throws on
Undeserializable(st) == "user" \in DOMAIN st /\ ~JSONparse(st["user"]).ok

\* C5: getCurrentUser() on a stored 'user' record that cannot be deserialized returns
\* null and removes the record and nothing else, so that a second getCurrentUser()
\* returns null too and finds no record.
C5_SelfHealingRead ==
    [][(lastOp'.op = "getCurrentUser" /\ Undeserializable(localStorage)) =>
           /\ ret' = JNull
           /\ localStorage' = removeItem(localStorage, "user")
           /\ getCurrentUser(localStorage').ret = JNull
           /\ "user" \notin DOMAIN getCurrentUser(localStorage').st]_vars

\* C6: isLoggedIn() is true exactly when getCurrentUser(), called on the same storage,
\* would return a Session; so it is in every state of the storage, a corrupted 'user'
\* record included.
C6_LoggedInIffLoads ==
    isLoggedIn(localStorage) <=> getCurrentUser(localStorage).ret # JNull

\* the properties of a Session
SessionFields == {"userId", "username", "token", "googleId", "picture", "email"}

\* C7: logout() removes the 'user' record and leaves the usage count and the prompt
\* time exactly as they were; after it isLoggedIn() is false.
C7_LogoutFrame ==
    [][lastOp'.op = "logout" =>
           /\ "user" \notin DOMAIN localStorage'
           /\ ~isLoggedIn(localStorage')
           /\ \A k \in {"usageCount", "lastLoginPromptTime"} :
                 getItem(localStorage', k) = getItem(localStorage, k)]_vars

\* logout() ran with a Session stored, and the prompt time stored before it is still there
C7_Witness ==
    /\ lastOp.op = "logout" /\ Truthy(lastOp.found.user)
    /\ "lastLoginPromptTime" \in DOMAIN localStorage
    /\ ~isLoggedIn(localStorage)

\* a and b agree on every property of a Session
SameSession(a, b) == \A k \in SessionFields : Get(a, k) = Get(b, k)

\* C8: for every Session value, getCurrentUser() right after login() returns a Session
\* equal to the one saved in userId, username, token, googleId, picture and email.
C8_RoundTrip ==
    lastOp.op = "login" =>
        /\ getCurrentUser(localStorage).ret.t = "obj"
        /\ getCurrentUser(localStorage).st = localStorage
        /\ SameSession(getCurrentUser(localStorage).ret, lastOp.arg)

\* a Session whose username holds a quote and a backslash, and whose userId is
\* undefined, was saved and reads back
C8_Witness ==
    /\ lastOp.op = "login"
    /\ Get(lastOp.arg, "username") = JStr("q\"uo\\te")
    /\ Get(lastOp.arg, "userId") = JUndef
    /\ Get(getCurrentUser(localStorage).ret, "username") = JStr("q\"uo\\te")

\* the exchange completed with resp failed, or its response carries no token
ExchangeFailed(resp) ==
    \/ ~HandleResponse(resp).ok
    \/ ~Truthy(Get(HandleResponse(resp).data, "token"))

\* C9: when the exchange fails (a non-success status, an empty or malformed body, a
\* network error) or its response carries no token, the orchestrator synthesizes the
\* Session instead: a Session is stored and no failure is shown.
C9_FallbackOnFailure ==
    (lastOp.op = "fetchComplete" /\ ExchangeFailed(lastOp.arg)) =>
        /\ ret = JBool(TRUE)
        /\ HasSession(localStorage)
        /\ loginMessage = ""

\* the address processGoogleLoginData() reads when the page is loaded at url: the one the
\* error check has left
AddressRead(url) == AuthErrorCheck(url, hostname).href

\* the page was loaded and processGoogleLoginData() read a non-empty google_id
LoadedWithIdentity ==
    IF lastOp.op # "pageLoad" THEN FALSE
    ELSE /\ Includes(AddressRead(lastOp.arg.url), "google_id=")
         /\ Truthy(Identity(ExtractParams(AddressRead(lastOp.arg.url), hostname)).googleId)

\* C10: on localhost, 127.0.0.1 and the production host, no exchange is ever started,
\* and a page load with a non-empty google_id ends with a Session stored for which
\* isLoggedIn() is true.
C10_DesignatedHosts ==
    hostname \in {"localhost", "127.0.0.1", "qhdsalsm.com", "www.qhdsalsm.com"} =>
        /\ fetches = <<>>
        /\ LoadedWithIdentity =>
              /\ ret = JBool(TRUE)
              /\ HasSession(localStorage)
              /\ isLoggedIn(localStorage)

\* on the production host a page load with a google_id stored a Session
C10_Witness ==
    /\ hostname = "www.qhdsalsm.com" /\ LoadedWithIdentity
    /\ HasSession(localStorage) /\ fetches = <<>>

\* the last operation stored a Session
Persisted == ret = JBool(TRUE) /\ HasSession(localStorage)

\* #loginMessage shows a failed login
Surfaced == Includes(loginMessage, "Google login failed: ")

\* processGoogleLoginData() or the handlers of its exchange, run last, put a failed-login
\* message in #loginMessage: it is not the text they found there
SurfacedNow == Surfaced /\ loginMessage # lastOp.found.message

\* processGoogleLoginData() has read a non-empty google_id and no exchange is pending:
\* on a page load that started none, or when the handlers of the exchange have run
ResolveEnded ==
    /\ fetches = <<>>
    /\ LoadedWithIdentity \/ lastOp.op = "fetchComplete"

\* C11: every processGoogleLoginData() that read a non-empty google_id comes to an end,
\* the handlers of its exchange being run, and at its end either it has stored a Session
\* or it has put a failed-login message in #loginMessage, never both and never neither.
C11_ResolveTerminates ==
    /\ [](ResolveEnded => (Persisted /\ ~SurfacedNow) \/ (~Persisted /\ SurfacedNow))
    /\ LoadedWithIdentity ~> ResolveEnded

\* an exchange that was pending has failed and the failure is shown, no Session stored
C11_Witness ==
    /\ lastOp.op = "fetchComplete" /\ fetches = <<>>
    /\ SurfacedNow /\ ~HasSession(localStorage)

\* the page was loaded at an address that carries error=access_denied
LoadedWithDenial ==
    IF lastOp.op # "pageLoad" THEN FALSE
    ELSE Includes(lastOp.arg.url, "error=access_denied")

\* C12: a page load at an address that carries error=access_denied stores no Session,
\* whether or not the address carries a google_id as well; it leaves #loginMessage
\* showing a failed login that names access_denied, and no error parameter in the
\* visible URL.
C12_DeniedRedirect ==
    LoadedWithDenial =>
        /\ ret = JBool(FALSE)
        /\ Includes(loginMessage, "Google login failed: ")
        /\ Includes(loginMessage, "access_denied")
        /\ ~Includes(href, "error=")

\* processGoogleLoginData(), or the handlers of its exchange, ran last and stored a Session
ResolvePersisted == lastOp.op \in {"pageLoad", "fetchComplete"} /\ Persisted

\* what processGoogleLoginData() would do if it ran again on the visible URL
RunAgain == processGoogleLoginData(localStorage, href, hostname, loginMessage, now, "k3x")

\* C13: once processGoogleLoginData() or the success path of its exchange has stored a
\* Session, the visible URL holds no google_id parameter: processGoogleLoginData() run
\* again on it reads no identity, stores nothing and starts no exchange.
C13_UrlCleared ==
    ResolvePersisted =>
        /\ ~Includes(href, "google_id=")
        /\ RunAgain.st = localStorage
        /\ RunAgain.started = <<>>

\* C14: whenever processGoogleLoginData() or the handlers of its exchange store a
\* Session, updateAuthUI() runs in the same step and after the Session is written: every
\* view it rendered in that step is the logged-in view of the Session now stored.
C14_StoreThenRender ==
    ResolvePersisted =>
        /\ rendered # <<>>
        /\ \A i \in DOMAIN rendered :
              /\ rendered[i].navLogin = "Logout"
              /\ rendered[i] = AuthView(localStorage)

\* the success path of the exchange stored the Session of the response and rendered it
C14_Witness ==
    /\ lastOp.op = "fetchComplete" /\ Persisted
    /\ Len(rendered) = 1
    /\ rendered[1].userAvatar = "https://ui-avatars.com/api/?name=Ann&background=random"

\* the data of the response the exchange completed with, and whether it carries a token
ResponseData(resp) == HandleResponse(resp).data

HasToken(resp) == HandleResponse(resp).ok /\ Truthy(Get(ResponseData(resp), "token"))

\* the Session getCurrentUser() would return
StoredUser == getCurrentUser(localStorage).ret

\* C15: on a host that is neither a development nor the production host,
\* processGoogleLoginData() with a non-empty google_id stores nothing and starts the
\* exchange; when the response carries a token the Session stored has the token and the
\* user_id of the response, and its username when it has one; when the response carries
\* no token the handlers store no Session.
C15_SessionFromResponse ==
    /\ (LoadedWithIdentity
            /\ hostname \notin {"localhost", "127.0.0.1", "qhdsalsm.com", "www.qhdsalsm.com"})
          => Len(fetches) = 1 /\ ~Persisted
    /\ (lastOp.op = "fetchComplete" /\ HasToken(lastOp.arg)) =>
          /\ Persisted
          /\ Get(StoredUser, "token") = Get(ResponseData(lastOp.arg), "token")
          /\ Get(StoredUser, "userId") = Get(ResponseData(lastOp.arg), "user_id")
          /\ Truthy(Get(ResponseData(lastOp.arg), "username")) =>
                Get(StoredUser, "username") = Get(ResponseData(lastOp.arg), "username")
    /\ (lastOp.op = "fetchComplete" /\ ~HasToken(lastOp.arg)) => ~Persisted

\* the exchange answered with a token, a username and a user_id, and the Session stored
\* has all three
C15_Witness ==
    /\ lastOp.op = "fetchComplete" /\ HasToken(lastOp.arg) /\ Persisted
    /\ Get(StoredUser, "token") = JStr("srv-1")
    /\ Get(StoredUser, "username") = JStr("Ann")
    /\ Get(StoredUser, "userId") = JNum(7)

\* the usage count stored in st, 0 when none is stored
StoredCount(st) == IF "usageCount" \in DOMAIN st THEN parseInt(st["usageCount"]) ELSE 0

\* C16: incrementUsageCount() never removes or lowers the stored usage count, whether or
\* not it shows the prompt: with no 'user' record stored it raises the count by one. A
\* step that removes or lowers the count is one that stores a Session.
C16_CountOnlyResetBySession ==
    [][/\ lastOp'.op = "incrementUsageCount" =>
             StoredCount(localStorage') =
                 StoredCount(localStorage) + (IF isLoggedIn(localStorage) THEN 0 ELSE 1)
       /\ StoredCount(localStorage') < StoredCount(localStorage) =>
             /\ lastOp'.op \in {"login", "pageLoad", "fetchComplete", "emergencyLogin"}
             /\ ret' = JBool(TRUE)
             /\ HasSession(localStorage')]_vars

\* incrementUsageCount() showed the prompt at the 15th use and the count stored is 15
C16_Witness ==
    /\ lastOp.op = "incrementUsageCount" /\ Shown
    /\ getItem(localStorage, "usageCount") = JStr("15")
    /\ getItem(localStorage, "lastLoginPromptTime") # JNull

\* more than 3600 seconds have passed since the prompt time stored in st, or none is stored
CooldownOver(st) ==
    \/ "lastLoginPromptTime" \notin DOMAIN st
    \/ now - parseInt(st["lastLoginPromptTime"]) > 3600 * 1000

\* C17: with no 'user' record stored and a count of 15 or more stored, every call of
\* incrementUsageCount() made more than 3600 seconds after the last prompt shows the
\* prompt and stores its time: at the 16th use, the 17th and so on, as at the 15th.
C17_PromptBeyondThreshold ==
    [][(/\ lastOp'.op = "incrementUsageCount"
        /\ ~isLoggedIn(localStorage)
        /\ StoredCount(localStorage) >= 15
        /\ CooldownOver(localStorage)) =>
           /\ ret' = JBool(TRUE)
           /\ promptLog' = Append(promptLog, now)
           /\ getItem(localStorage', "lastLoginPromptTime") = JStr(NumToString(now))]_vars

\* the 17th use, more than 3600 seconds after the prompt of the 15th, showed the prompt
C17_Witness ==
    /\ lastOp.op = "incrementUsageCount" /\ Shown
    /\ getItem(localStorage, "usageCount") = JStr("17")
    /\ getItem(localStorage, "lastLoginPromptTime") = JStr(NumToString(now))
    /\ promptLog = <<0, now>>

\* C18: in a visit that starts with nothing stored, no prompt is shown before the 15th
\* use and exactly one has been shown when the visitor has made 15 uses; after the
\* visitor logs in through mockGoogleLogin(), in every state with the Session stored no
\* usage count is stored, and incrementUsageCount() changes nothing and shows nothing.
C18_VisitScenario ==
    /\ [](Anonymous(localStorage) =>
             /\ nUses < 15 => promptLog = <<>>
             /\ nUses = 15 => Len(promptLog) = 1)
    /\ [](HasSession(localStorage) => "usageCount" \notin DOMAIN localStorage)
    /\ [][(lastOp'.op = "incrementUsageCount" /\ HasSession(localStorage)) =>
             /\ UNCHANGED <<localStorage, promptLog>>
             /\ ret' = JBool(FALSE)]_vars

\* the visitor made 15 uses, saw the prompt once, logged in and used the interpreter again
C18_Witness ==
    /\ lastOp.op = "incrementUsageCount" /\ HasSession(localStorage)
    /\ Len(promptLog) = 1
    /\ "usageCount" \notin DOMAIN localStorage

\* the parameter parsing ran last, on an address that holds 'google_id='
Extracted ==
    IF lastOp.op # "extract" THEN FALSE ELSE Includes(lastOp.arg.url, "google_id=")

\* the strategy named by the character before the first 'google_id=' of url
FirstKeyBranch(url) ==
    CASE Ch(url, IndexOf(url, "google_id=") - 1) = "?" -> "query"
      [] Ch(url, IndexOf(url, "google_id=") - 1) = "#" -> "fragment"
      [] Ch(url, IndexOf(url, "google_id=") - 1) = "/" -> "slash"
      [] OTHER -> "scan"

\* the strategy named by the first of '?google_id=', '#google_id=', '/google_id=' that
\* occurs anywhere in url, in this order
PrecedenceBranch(url) ==
    CASE Includes(url, "?google_id=") -> "query"
      [] Includes(url, "#google_id=") -> "fragment"
      [] Includes(url, "/google_id=") -> "slash"
      [] OTHER -> "scan"

\* the identity a strategy reads from url
IdentityBy(branch, url) ==
    JObj(<<"googleId", "name", "email", "picture">>,
         Identity(URLSearchParams(
             CASE branch = "query" -> LocationSearch(url, hostname)
               [] branch = "fragment" -> SplitSecond(url, "#")
               [] branch = "slash" ->
                    "google_id=" \o StripDisallowed(SplitSecond(url, "/google_id="))
               [] OTHER -> DirectScan(url, IndexOf(url, "google_id=")))))

\* C19 as stated: the strategy used is the one whose delimiter stands before the first
\* occurrence of 'google_id=' in the URL.
C19_FirstDelimiterWins ==
    Extracted => ret = IdentityBy(FirstKeyBranch(lastOp.arg.url), lastOp.arg.url)

\* C19: the strategies exclude each other by a fixed order, not by position: the query
\* string is parsed when '?google_id=' occurs anywhere in the URL, else the fragment
\* when '#google_id=' occurs, else the text after '/google_id=' when that occurs, else
\* the direct scan. A URL with '?google_id=' and a later '#google_id=' is parsed by the
\* query-string strategy.
C19_PrecedenceWins ==
    Extracted =>
        /\ ret = IdentityBy(PrecedenceBranch(lastOp.arg.url), lastOp.arg.url)
        /\ lastOp.arg.url = Origin(hostname) \o "/?google_id=q#google_id=f" =>
              Get(ret, "googleId") = JStr("q")

\* an address whose first 'google_id=' follows a slash and whose second follows a '#'
\* was parsed by the fragment strategy
C19_Witness ==
    /\ Extracted
    /\ lastOp.arg.url = Origin(hostname) \o "/google_id=s#google_id=f"
    /\ Get(ret, "googleId") = JStr("f")

\* the parameter parsing ran last, on an address built from a parameter string
ExtractedContent == IF lastOp.op # "extract" THEN FALSE ELSE lastOp.arg.content # ""

\* the identity read from the address that carries content in the shape of prefix
ShapeIdentity(prefix, content) ==
    ExtractIdentity(Origin(hostname) \o "/" \o prefix \o content, hostname)

\* the identity the parameter string itself holds
ContentIdentity(content) ==
    JObj(<<"googleId", "name", "email", "picture">>, Identity(URLSearchParams(content)))

\* C20 as stated: whatever the parameter string, the four shapes of address that carry
\* it (query string, fragment, after a slash, mid-string) yield the same four values.
C20_ShapesAgree ==
    ExtractedContent =>
        \A prefix \in {"?", "#", "", "cb;"} : ShapeIdentity(prefix, lastOp.arg.content) = ret

\* content is made of letters, digits, '_' and the characters = & % @ . - only
PlainContent(content) ==
    CharsOf(content) \subseteq
        CharsOf("ABCDEFGHIJKLMNOPQRSTUVWXYZabcdefghijklmnopqrstuvwxyz0123456789_=&%@.-")

\* C20: for a parameter string that starts with google_id= and is made of letters,
\* digits, '_' and = & % @ . - only, the four shapes of address that carry it yield the
\* same four values, those the string itself holds once percent-decoded.
C20_PlainShapesAgree ==
    (ExtractedContent /\ PlainContent(lastOp.arg.content)) =>
        /\ ret = ContentIdentity(lastOp.arg.content)
        /\ \A prefix \in {"?", "#", "", "cb;"} :
              ShapeIdentity(prefix, lastOp.arg.content) = ret

\* a percent-encoded email was read from the parameters appended after a slash
C20_Witness ==
    /\ ExtractedContent
    /\ lastOp.arg.url = Origin(hostname) \o "/google_id=abc&email=a%40b.c"
    /\ Get(ret, "googleId") = JStr("abc")
    /\ Get(ret, "email") = JStr("a@b.c")

\* the address a page load at url leaves processGoogleLoginData() to read holds
\* 'google_id=' but no non-empty google_id
NoIdentityAt(url) ==
    /\ Includes(AddressRead(url), "google_id=")
    /\ ~Truthy(Identity(ExtractParams(AddressRead(url), hostname)).googleId)

\* C21: a page load at an address that holds 'google_id=' with no or an empty google_id,
\* whatever name, email or picture it carries, stores no Session, starts no exchange and
\* leaves #loginMessage showing that required information is missing.
C21_MissingIdentity ==
    [][(IF lastOp'.op = "pageLoad" THEN NoIdentityAt(lastOp'.arg.url) ELSE FALSE) =>
           /\ localStorage' = updateAuthUI(localStorage)
           /\ fetches' = <<>>
           /\ ret' = JBool(FALSE)
           /\ loginMessage' = "Google login failed: Missing required information"]_vars

\* the page was loaded at an address with an empty google_id and a name
C21_Witness ==
    /\ lastOp.op = "pageLoad"
    /\ lastOp.arg = [url |-> Origin(hostname) \o "/?google_id=&name=Bo"]
    /\ loginMessage = "Google login failed: Missing required information"
    /\ hostname = "dreams.example" /\ fetches = <<>>

\* a value params.get() hands back: null or a string
ParamValue(x) == x = JNull \/ x = JStr(x.v)

IdentityKeys == <<"googleId", "name", "email", "picture">>

LoadsWithoutKey ==
    IF lastOp'.op = "pageLoad" THEN ~Includes(lastOp'.arg.url, "google_id=") ELSE FALSE

\* the step leaves the Session read from storage, the use count and the time of the last
\* prompt as they were, and no exchange pending
KeepsStoreAndStartsNothing ==
    /\ getCurrentUser(localStorage').ret = getCurrentUser(localStorage).ret
    /\ getItem(localStorage', "usageCount") = getItem(localStorage, "usageCount")
    /\ getItem(localStorage', "lastLoginPromptTime") = getItem(localStorage, "lastLoginPromptTime")
    /\ fetches' = <<>>

\* C23 as stated: a page load at an address without 'google_id=' leaves the Session, the
\* use count, the prompt time and the visible address as they were and starts no exchange.
C23_NoKeyNoChange ==
    [][LoadsWithoutKey => KeepsStoreAndStartsNothing /\ href' = lastOp'.arg.url]_vars

\* C23: a page load at an address without 'google_id=' leaves the Session, the use count
\* and the prompt time as they were, starts no exchange and shows no message of the
\* login; the visible address stays as loaded unless it holds 'error=', and is then cut
\* to origin and pathname.
C23_NoKeyNoLogin ==
    [][LoadsWithoutKey =>
           /\ KeepsStoreAndStartsNothing
           /\ ret' = JBool(FALSE)
           /\ loginMessage' = lastOp'.found.message
           /\ href' = IF Includes(lastOp'.arg.url, "error=")
                      THEN CleanUrl(lastOp'.arg.url, hostname)
                      ELSE lastOp'.arg.url]_vars

\* the page was loaded at its own address with a count and a prompt time stored
C23_Witness ==
    /\ lastOp.op = "pageLoad" /\ lastOp.arg.url = Origin(hostname) \o "/"
    /\ href = Origin(hostname) \o "/"
    /\ StoredCount(localStorage) = 16
    /\ "lastLoginPromptTime" \in DOMAIN localStorage
    /\ ~HasSession(localStorage) /\ fetches = <<>>

\* identities without a picture: the name absent, plain, or spelled like an email address
PictureLess ==
    {[googleId |-> JStr("x"), name |-> n, email |-> e, picture |-> JNull] :
        n \in {JNull, JStr("Bo"), JStr("a@b.c")}, e \in {JNull, JStr("a@b.c")}}

\* a page load on a host where mockGoogleLogin() is allowed read a google_id and stored
\* the Session mockGoogleLogin() built
SynthesizedNow ==
    LoadedWithIdentity /\ Persisted /\ isAllowedDomain(hostname)

\* the Session stored was built from identity id as the claim says: the username is the
\* name, else the email, else a default label; the picture is the one given, else one
\* that every picture-less identity of the same username gets too
SynthesizedFrom(id) ==
    /\ Get(StoredUser, "username") = Or(id.name, Or(id.email, JStr("Local User")))
    /\ IF Truthy(id.picture) THEN Get(StoredUser, "picture") = id.picture
       ELSE \A other \in PictureLess :
                Get(MockUserData(other, now, "k3x"), "username") = Get(StoredUser, "username")
                    => Get(MockUserData(other, now, "k3x"), "picture")
                           = Get(StoredUser, "picture")

\* C24: a Session built by mockGoogleLogin() has the name as username, else the email,
\* else a default label, and as picture the one given, else a generated URL that is a
\* function of that username: two picture-less identities of one username get one URL.
C24_SynthesizedFields ==
    SynthesizedNow =>
        SynthesizedFrom(Identity(ExtractParams(AddressRead(lastOp.arg.url), hostname)))

\* the operation run last stored a Session built on the page: by mockGoogleLogin() during
\* a page load, or by emergencyLogin()
Synthesized(op, result, host) ==
    \/ op = "emergencyLogin"
    \/ op = "pageLoad" /\ result = JBool(TRUE) /\ isAllowedDomain(host)

\* C25: two Sessions built on the page never have the same userId: when a Session built
\* by mockGoogleLogin() or emergencyLogin() is stored and the next operation builds
\* another, with or without the clock advancing in between, the userId stored changes.
C25_FreshUserId ==
    [][(Synthesized(lastOp.op, ret, hostname) /\ Synthesized(lastOp'.op, ret', hostname)
        /\ HasSession(localStorage)) =>
           Get(getCurrentUser(localStorage').ret, "userId")
               # Get(getCurrentUser(localStorage).ret, "userId")]_vars

\* C26: at no time is more than one exchange pending; one is pending only after a page
\* load that read a google_id, and the handlers of a completed exchange start no other.
C26_OneExchange ==
    /\ Len(fetches) <= 1
    /\ lastOp.op = "fetchComplete" => fetches = <<>>
    /\ (fetches # <<>> /\ lastOp.op = "pageLoad") => LoadedWithIdentity

\* a page load on a host without mockGoogleLogin() has started the exchange
C26_Witness ==
    /\ lastOp.op = "pageLoad" /\ hostname = "dreams.example"
    /\ Len(fetches) = 1 /\ fetches[1].googleId = JStr("x")

\* the step leaves the 'user' record as it was
KeepsUser == getItem(localStorage', "user") = getItem(localStorage, "user")

\* the step removes the 'user' record
RemovesUser == "user" \in DOMAIN localStorage /\ "user" \notin DOMAIN localStorage'

\* C27: a stored Session stays as it is when time passes, when the page is reloaded,
\* when a use is counted and when getCurrentUser() reads a well-formed record, and the
\* 'user' record stays as it is when the login prompt is shown. The page's
\* code changes the 'user' record in three ways only: logout() removes it, a read that
\* cannot parse it removes it, and a login stores a new Session in its place.
C27_SessionFrame ==
    [][/\ (HasSession(localStorage) /\ lastOp'.op \in {"tick", "incrementUsageCount",
                                                        "getCurrentUser"}) => KeepsUser
       /\ (HasSession(localStorage) /\ LoadsWithoutKey) => KeepsUser
       /\ (lastOp'.op = "incrementUsageCount" /\ ret' = JBool(TRUE)) => KeepsUser
       /\ (~KeepsUser /\ lastOp'.op # "corrupt") =>
              \/ lastOp'.op = "logout" /\ RemovesUser
              \/ /\ lastOp'.op \in {"getCurrentUser", "pageLoad"}
                 /\ Undeserializable(localStorage) /\ RemovesUser
              \/ /\ lastOp'.op = "pageLoad" /\ ret' = JBool(TRUE)
                 /\ HasSession(localStorage')]_vars

\* more than an hour after the login the page was reloaded and the Session is still stored
C27_Witness ==
    /\ lastOp.op = "pageLoad" /\ lastOp.arg.url = Origin(hostname) \o "/"
    /\ ret = JBool(FALSE) /\ HasSession(localStorage)
    /\ Get(StoredUser, "userId") = JStr("mock-0")
    /\ now > PromptCooldownMs

\* the step is an access of incrementUsageCount() or of the showLoginPrompt() it calls
UseSteps ==
    IF lastOp'.op # "tabStep" THEN FALSE
    ELSE lastOp'.arg.call \in {"incrementUsageCount", "showLoginPrompt"}

\* the step is the first access of incrementUsageCount(), the one that tests isLoggedIn()
UseBegins ==
    IF lastOp'.op # "tabStep" THEN FALSE
    ELSE lastOp'.arg.call = "incrementUsageCount" /\ lastOp'.arg.line = 59

\* the first access of incrementUsageCount(), made while a 'user' record is stored, ends
\* the call with nothing written and no prompt shown
LateUseIsNoOp ==
    (UseBegins /\ isLoggedIn(localStorage)) =>
        /\ localStorage' = localStorage /\ promptLog' = promptLog
        /\ tabs'[lastOp'.arg.tab] = Idle

\* C28 as stated: with two tabs interleaving at single storage accesses, a count can be
\* stored next to a Session; an incrementUsageCount() called while a 'user' record is
\* stored is a no-op, and no access of incrementUsageCount() or its showLoginPrompt()
\* shows the prompt while a 'user' record is stored.
C28_NoPromptWithSession ==
    [][/\ LateUseIsNoOp
       /\ (UseSteps /\ isLoggedIn(localStorage)) => promptLog' = promptLog]_vars

\* C28: with two tabs interleaving at single storage accesses, a count can be stored
\* next to a Session; an incrementUsageCount() that tests isLoggedIn() while a 'user'
\* record is stored, a count next to it or not, returns at once: it writes nothing and
\* shows no prompt. A call that made its test before the record was stored goes on.
C28_LateUseIsNoOp == [][LateUseIsNoOp]_vars

\* a count is stored next to the Session, no call is under way in either tab, and an
\* incrementUsageCount() has just returned at its test
C28_Witness ==
    /\ lastOp.op = "tabStep" /\ lastOp.arg.line = 59
    /\ HasSession(localStorage) /\ "usageCount" \in DOMAIN localStorage
    /\ \A tab \in Tabs : tabs[tab] = Idle

\* C29: processGoogleLoginData() writes no 'user' record when it starts the exchange, and
\* a page load that leaves a pending exchange behind drops it and writes none either: the
\* record changes only when a completion runs and stores the whole Session in that one
\* step (every field but the userId, which a response may lack), or when logout() removes
\* it. A use of the interpreter made with no 'user' record while the exchange is pending
\* adds one to the stored count and leaves it pending.
C29_PendingKeepsSession ==
    [][/\ (lastOp'.op = "pageLoad" /\ (fetches' # <<>> \/ fetches # <<>>)) =>
              KeepsUser /\ Len(fetches') <= 1
       /\ (lastOp'.op = "incrementUsageCount" /\ fetches # <<>>) =>
              /\ KeepsUser /\ fetches' = fetches
              /\ StoredCount(localStorage')
                     = StoredCount(localStorage) + (IF Anonymous(localStorage) THEN 1 ELSE 0)
       /\ ~KeepsUser =>
              \/ lastOp'.op = "logout" /\ RemovesUser
              \/ /\ lastOp'.op = "fetchComplete" /\ ret' = JBool(TRUE)
                 /\ HasSession(localStorage')
                 /\ \A k \in SessionFields \ {"userId"} :
                        ObjHas(getCurrentUser(localStorage').ret, k)]_vars

\* a Session of an earlier exchange is stored, the page was left for the redirect address
\* while a second exchange was pending, and the third is pending now
C29_Witness ==
    /\ lastOp.op = "pageLoad" /\ fetches # <<>>
    /\ HasSession(localStorage) /\ Get(StoredUser, "token") = JStr("srv-2")
    /\ href = Origin(hostname) \o "/?google_id=x&name=Bo"

\* C30: a click on the interpret button with a non-empty text and no Session stored adds
\* exactly one to the stored count, before the interpretation is asked for; from empty
\* storage on, a stored count is the decimal numeral of an integer of at least 1: the
\* number of such clicks since the storage was empty or a Session was last stored.
C30_CountIsUses ==
    [][/\ (lastOp'.op = "incrementUsageCount" /\ ~HasSession(localStorage)) =>
              /\ StoredCount(localStorage') = StoredCount(localStorage) + 1
              /\ nUses' = nUses + 1
       /\ "usageCount" \in DOMAIN localStorage' =>
              /\ localStorage'["usageCount"] = NumToString(nUses')
              /\ nUses' >= 1]_vars

\* after a first visit of fifteen uses, a login and a logout, the second use is counted 2
C30_Witness ==
    /\ CountedUse /\ Len(promptLog) = 1
    /\ getItem(localStorage, "usageCount") = JStr("2") /\ nUses = 2

\* the characters the direct scan stops at
Disallowed == {" ", "\"", "'", "<", ">", "\\", "{", "}"}

HasDisallowed(s) == FirstIn(s, 1, Disallowed) # 0

\* the parameter parsing ran last, on an address whose 'google_id=' follows none of '?',
\* '#' and '/'
ScannedDirectly ==
    IF ~Extracted THEN FALSE ELSE PrecedenceBranch(lastOp.arg.url) = "scan"

\* url from position start up to the character before position stop, up to its end when
\* stop is 0
UpTo(url, start, stop) == SubSeq(url, start, IF stop = 0 THEN Len(url) ELSE stop - 1)

\* url from its first 'google_id=' up to the first disallowed character after it
SliceOf(url) ==
    UpTo(url, IndexOf(url, "google_id="),
         FirstIn(url, IndexOf(url, "google_id="), Disallowed))

\* the direct scan of the address parsed last yields that slice, and the values
\* extracted are the parameters of the slice
ParsesSlice ==
    /\ DirectScan(lastOp.arg.url, IndexOf(lastOp.arg.url, "google_id="))
           = SliceOf(lastOp.arg.url)
    /\ ret = JObj(IdentityKeys, Identity(URLSearchParams(SliceOf(lastOp.arg.url))))

\* C31 as stated: in the direct scan the text parsed runs from the first 'google_id=' to
\* the first disallowed character after it, and no value extracted holds a disallowed
\* character.
C31_NoDisallowedInValues ==
    ScannedDirectly =>
        /\ ParsesSlice
        /\ \A i \in 1..Len(IdentityKeys) : ~HasDisallowed(Get(ret, IdentityKeys[i]).v)

\* C31: in the direct scan the text parsed runs from the first 'google_id=' to the first
\* disallowed character after it, so it holds no disallowed character and nothing that
\* follows one; a value extracted holds a disallowed character only where the decoding
\* of a '+' or a '%XX' of that text produced it.
C31_SliceStopsAtDisallowed ==
    ScannedDirectly =>
        /\ ParsesSlice
        /\ ~HasDisallowed(SliceOf(lastOp.arg.url))
        /\ \A i \in 1..Len(IdentityKeys) :
              HasDisallowed(Get(ret, IdentityKeys[i]).v) =>
                  \/ Includes(SliceOf(lastOp.arg.url), "+")
                  \/ Includes(SliceOf(lastOp.arg.url), "%")

\* the scan stopped at a brace: the google_id is what stands before it, the name after
\* it is not read
C31_Witness ==
    /\ ScannedDirectly
    /\ lastOp.arg.url = Origin(hostname) \o "/cb;google_id=a{b}&name"
    /\ Get(ret, "googleId") = JStr("a") /\ Get(ret, "name") = JNull

\* the handlers of an exchange, run last, put a failed-login message in #loginMessage
ExchangeReportsFailure ==
    IF lastOp'.op # "fetchComplete" THEN FALSE
    ELSE /\ Includes(loginMessage', "Google login failed: ")
         /\ loginMessage' # lastOp'.found.message

\* the step leaves a Session in the 'user' record that was not there before it
WritesSession ==
    /\ HasSession(localStorage')
    /\ getItem(localStorage', "user") # getItem(localStorage, "user")

\* C32: handlers of an exchange that put a failed-login message in #loginMessage,
\* mockGoogleLogin() having returned false in the .catch(), leave no Session that was
\* not stored before they ran, whichever step of the success path threw.
C32_NoSessionWithFailure == [][ExchangeReportsFailure => ~WritesSession]_vars

\* the step ran the handlers of an exchange whose response carries a token, and the
\* Session stored holds that token
StoresIssuedToken ==
    IF lastOp'.op # "fetchComplete" THEN FALSE
    ELSE /\ HasToken(lastOp'.arg)
         /\ Get(getCurrentUser(localStorage').ret, "token")
                = Get(ResponseData(lastOp'.arg), "token")

\* C33: on a host that is neither local nor canonical, a step of the page that leaves a
\* Session in the 'user' record that was not there before is the completion of an
\* exchange whose response carries a token, and the Session holds that token: none of
\* processGoogleLoginData(), mockGoogleLogin() and emergencyLogin() stores there a
\* Session made up in the page.
C33_OnlyIssuedTokens ==
    [][~isAllowedDomain(hostname) /\ WritesSession => StoresIssuedToken]_vars

\* mockGoogleLogin() was called with arguments it refuses: on a host that is neither
\* local nor canonical, or without a google id
RefusedCall ==
    IF lastOp'.op # "mockGoogleLogin" THEN FALSE
    ELSE ~isAllowedDomain(hostname) \/ ~Truthy(lastOp'.arg.googleId)

\* C34: mockGoogleLogin() called on a host that is neither local nor canonical, or with
\* a google id that is undefined or empty, returns false and leaves the storage (the
\* 'user', 'usageCount' and 'lastLoginPromptTime' records) and the visible URL as they
\* were.
C34_RefusedMockLogin ==
    [][RefusedCall => ret' = JBool(FALSE) /\ localStorage' = localStorage /\ href' = href]_vars

\* mockGoogleLogin() has refused a google id on a host that is neither local nor
\* canonical, a usage count and the time of a prompt being stored
C34_Witness ==
    /\ lastOp.op = "mockGoogleLogin" /\ ret = JBool(FALSE)
    /\ ~isAllowedDomain(hostname) /\ Truthy(lastOp.arg.googleId)
    /\ {"usageCount", "lastLoginPromptTime"} \subseteq DOMAIN localStorage

\* C35: whatever string the 'user' record holds, one that JSON.parse() turns into null
\* included, once getCurrentUser() has returned, isLoggedIn() on the storage it left is
\* true exactly when it returned a Session: the read removes a record that holds none.
C35_ReadRepairs ==
    [][lastOp'.op = "getCurrentUser" => (isLoggedIn(localStorage') <=> ret' # JNull)]_vars

\* the step changes the 'lastLoginPromptTime' record: writes, overwrites or removes it
ChangesPromptTime ==
    getItem(localStorage', "lastLoginPromptTime") # getItem(localStorage, "lastLoginPromptTime")

\* C36: the 'lastLoginPromptTime' record is changed only by a call of
\* incrementUsageCount() that shows the prompt, which stores the time of the call; a
\* page load that stores a Session, logout(), getCurrentUser() and a call of
\* incrementUsageCount() that shows no prompt leave it as it was. Once stored it is
\* never removed and, the clock never going back, the time it holds never decreases.
C36_PromptTimeFrame ==
    [][/\ ChangesPromptTime =>
            /\ lastOp'.op = "incrementUsageCount" /\ ret' = JBool(TRUE)
            /\ promptLog' = Append(promptLog, now)
            /\ getItem(localStorage', "lastLoginPromptTime") = JStr(NumToString(now))
       /\ (lastOp'.op = "incrementUsageCount" /\ ret' = JBool(FALSE)) => ~ChangesPromptTime
       /\ lastOp'.op \in {"pageLoad", "logout", "getCurrentUser"} => ~ChangesPromptTime
       /\ "lastLoginPromptTime" \in DOMAIN localStorage =>
            /\ "lastLoginPromptTime" \in DOMAIN localStorage'
            /\ parseInt(localStorage'["lastLoginPromptTime"])
                   >= parseInt(localStorage["lastLoginPromptTime"])]_vars

\* a second prompt was shown and its time stored over the time of the first
C36_Witness ==
    /\ lastOp.op = "incrementUsageCount" /\ ret = JBool(TRUE)
    /\ Len(promptLog) = 2
    /\ getItem(localStorage, "lastLoginPromptTime") = JStr(NumToString(promptLog[2]))
    /\ promptLog[2] > promptLog[1]

\* C37: for every address, when testLoginFromCurrentUrl() calls mockGoogleLogin(), the
\* google id, name, email and picture it passes are the four values
\* processGoogleLoginData() reads from the same address, whether 'google_id=' follows a
\* '?', a '#', a '/' or something else.
C37_ExtractionsAgree ==
    (lastOp.op = "testExtract" /\ ret # JBool(FALSE)) =>
        ret = ExtractIdentity(href, hostname)

====
